---------------------------- MODULE Spec2Model ----------------------------
(***************************************************************************)
(* State-machine model of python-moteconnection: the Connection supervisor *)
(* (connection.py), its transport workers (connection_serial.py,           *)
(* connection_forwarder.py, LoopbackConnection) and the user thread that   *)
(* calls the public API.                                                   *)
(*                                                                         *)
(* The library imports the Python 2 module Queue (connection.py:4), so the *)
(* string operations are modelled with their Python 2 meaning: bytes are   *)
(* str, chr(x).encode() and codecs.encode(chr(x)) raise UnicodeDecodeError *)
(* for x >= 128, and str ^ int raises TypeError.                           *)
(*                                                                         *)
(* Bytes are the integers 0..255 and byte strings are sequences of them.   *)
(***************************************************************************)
EXTENDS Integers, Sequences, FiniteSets, TLC

(***************************************************************************)
(* Python's None.  TLC compares values of one kind only, so None is        *)
(* written per kind: None among strings, NoneInt among integers (a seq or  *)
(* a worker reference) and NoneBytes among byte strings.                   *)
(***************************************************************************)
None == "None"

NoneInt == 0 - 1

NoneBytes == <<NoneInt>>

(***************************************************************************)
(* Program constants (connection_serial.py:43-51)                          *)
(***************************************************************************)
HDLC_FRAMING_BYTE == 126
HDLC_ESCAPE_BYTE == 125
HDLC_XOR_BYTE == 32
SERIAL_PROTOCOL_ACK == 67
SERIAL_PROTOCOL_PACKET == 68
SERIAL_PROTOCOL_NO_ACK_PACKET == 69
SERIAL_SEND_TRIES == 1

(***************************************************************************)
(* Bit operations on non-negative integers.                                *)
(***************************************************************************)
RECURSIVE XorBits(_, _)
XorBits(a, b) ==
    IF a = 0 THEN b
    ELSE IF b = 0 THEN a
    ELSE 2 * XorBits(a \div 2, b \div 2) + ((a + b) % 2)

(* The same, byte by byte through a table of the 256 x 256 byte results. *)
XorByte == [a \in 0..255 |-> [b \in 0..255 |-> XorBits(a, b)]]

Xor(a, b) ==
    XorBits(a \div 65536, b \div 65536) * 65536
        + XorByte[(a \div 256) % 256][(b \div 256) % 256] * 256
        + XorByte[a % 256][b % 256]

(***************************************************************************)
(* itut_g16_crc: CRC-16, polynomial 0x1021, initial value 0, MSB first.    *)
(***************************************************************************)
CrcShift(crc) ==
    IF crc \div 32768 # 0 THEN Xor(crc * 2, 4129) % 65536
                          ELSE (crc * 2) % 65536

(* crc is never negative: the test makes TLC evaluate the argument before *)
(* the next iteration instead of nesting the unevaluated expressions.     *)
RECURSIVE CrcBits(_, _)
CrcBits(crc, i) ==
    IF i = 0 \/ crc < 0 THEN crc ELSE CrcBits(CrcShift(crc), i - 1)

RECURSIVE CrcFrom(_, _)
CrcFrom(crc, data) ==
    IF data = <<>> \/ crc < 0 THEN crc
    ELSE CrcFrom(CrcBits(Xor(crc, Head(data) * 256), 8), Tail(data))

itut_g16_crc(data) == CrcFrom(0, data)

(***************************************************************************)
(* SerialConnection._process_incoming_packet.  The result is a record:     *)
(* exc = None with the returned pair (seq, packet), or exc naming the      *)
(* exception raised.  The message of the unknown-protocol exception is     *)
(* built with "{:02X}".format(packet_protocol) on a str, which raises      *)
(* ValueError before the SerialPacketException is constructed.             *)
(***************************************************************************)
Returned(seq, packet) == [exc |-> None, seq |-> seq, packet |-> packet]

Raised(e) == [exc |-> e, seq |-> NoneInt, packet |-> NoneBytes]

(* raise SerialPacketException(msg): msg is the start of e.args[0] *)
SerialPacketException(msg) ==
    [exc |-> "SerialPacketException", seq |-> NoneInt, packet |-> NoneBytes,
     msg |-> msg]

_process_incoming_packet(data) ==
    IF Len(data) > 2
    THEN LET packet_data == SubSeq(data, 1, Len(data) - 2)
             lcrc == data[Len(data) - 1]
             mcrc == data[Len(data)]
             packet_crc == mcrc * 256 + lcrc
             crc == itut_g16_crc(packet_data)
         IN  IF crc # packet_crc
             THEN SerialPacketException("crc mismatch")
             ELSE IF Len(packet_data) > 0
             THEN LET packet_protocol == data[1]
                      rest == Tail(packet_data)
                  IN  IF packet_protocol = SERIAL_PROTOCOL_ACK
                      THEN IF Len(rest) > 0
                           THEN Returned(rest[1], NoneBytes)
                           ELSE SerialPacketException("not enough data")
                      ELSE IF packet_protocol = SERIAL_PROTOCOL_PACKET
                      THEN IF Len(rest) > 1
                           THEN Returned(rest[1], Tail(rest))
                           ELSE SerialPacketException("not enough data")
                      ELSE IF packet_protocol = SERIAL_PROTOCOL_NO_ACK_PACKET
                      THEN Returned(NoneInt, rest)
                      ELSE Raised("ValueError")
             ELSE SerialPacketException("not enough data")
    ELSE SerialPacketException("not enough data")

(***************************************************************************)
(* SerialConnection._write, up to the call of serial_port.write: the bytes *)
(* handed to the port, or the exception raised while building them.        *)
(*   - chr(seq).encode() raises UnicodeDecodeError for seq >= 128;         *)
(*   - the escape branch evaluates obyte ^ ord(HDLC_XOR_BYTE) with obyte a *)
(*     str, which raises TypeError, so a frame holding 0x7E or 0x7D never  *)
(*     reaches the port.                                                   *)
(***************************************************************************)
FrameData(seq, packet) ==
    LET head == IF seq = NoneInt
                THEN <<SERIAL_PROTOCOL_NO_ACK_PACKET>>
                ELSE <<IF packet = NoneBytes THEN SERIAL_PROTOCOL_ACK
                                             ELSE SERIAL_PROTOCOL_PACKET, seq>>
        body == head \o (IF packet = NoneBytes THEN <<>> ELSE packet)
        crc  == itut_g16_crc(body)
    IN  body \o <<crc % 256, crc \div 256>>

NeedsEscape(datavalue) ==
    \E i \in 1..Len(datavalue) :
        datavalue[i] = HDLC_ESCAPE_BYTE \/ datavalue[i] = HDLC_FRAMING_BYTE

_write(seq, packet) ==
    IF seq # NoneInt /\ seq >= 128
    THEN [exc |-> "UnicodeDecodeError", bytes |-> <<>>]
    ELSE LET datavalue == FrameData(seq, packet)
         IN  IF NeedsEscape(datavalue)
             THEN [exc |-> "TypeError", bytes |-> <<>>]
             ELSE [exc |-> None,
                   bytes |-> <<HDLC_FRAMING_BYTE>> \o datavalue
                             \o <<HDLC_FRAMING_BYTE>>]

(***************************************************************************)
(* Bounds of the model.                                                    *)
(***************************************************************************)
MaxWorkers == 2

MaxPackets == 2

MaxQueue == 3

MaxOutQueue == 1

MaxPeriod == 1

MaxFrames == 2

MaxSfFrames == 1
MaxReceived == 1

Workers == 1..MaxWorkers

Packets == 1..MaxPackets

(***************************************************************************)
(* Message.serialize (struct format "! B H H B B B": big-endian dispatch,  *)
(* destination, source, payload length, group, type; then payload and      *)
(* footer).  The properties destination, source, group and type read an    *)
(* unset field as 0.                                                       *)
(***************************************************************************)
Field(v) == IF v = NoneInt THEN 0 ELSE v

PackH(v) == <<v \div 256, v % 256>>

Message_serialize(m) ==
    <<m.dispatch>> \o PackH(Field(m.destination)) \o PackH(Field(m.source))
        \o <<Len(m.payload), Field(m.group), Field(m.type)>>
        \o m.payload \o m.footer

(***************************************************************************)
(* Message.deserialize: struct.unpack("! B H H B B B") of the first eight  *)
(* bytes (struct.error, turned into ValueError, when there are fewer), the *)
(* payload of the announced length and the footer after it (ValueError     *)
(* when the length byte announces more than the data hold).                *)
(***************************************************************************)
UnpackH(data, i) == data[i] * 256 + data[i + 1]

STRUCT_FORMAT_SIZE == 8

Deserialized(m) == [exc |-> None, message |-> m]

Message_deserialize_NoFooter(data) ==
    IF Len(data) < STRUCT_FORMAT_SIZE
    THEN [exc |-> "ValueError"]
    ELSE LET length == data[6]
             rest == SubSeq(data, STRUCT_FORMAT_SIZE + 1, Len(data))
         IN  IF length <= Len(rest)
             THEN Deserialized(
                    [dispatch |-> data[1],
                     destination |-> UnpackH(data, 2),
                     source |-> UnpackH(data, 4),
                     group |-> data[7],
                     type |-> data[8],
                     payload |-> SubSeq(rest, 1, length),
                     footer |-> <<>>])
             ELSE [exc |-> "ValueError"]

Message_deserialize(data) ==
    IF Len(data) < STRUCT_FORMAT_SIZE
    THEN [exc |-> "ValueError"]
    ELSE LET length == data[6]
             rest == SubSeq(data, STRUCT_FORMAT_SIZE + 1, Len(data))
         IN  IF length <= Len(rest)
             THEN Deserialized(
                    [dispatch |-> data[1],
                     destination |-> UnpackH(data, 2),
                     source |-> UnpackH(data, 4),
                     group |-> data[7],
                     type |-> data[8],
                     payload |-> SubSeq(rest, 1, length),
                     footer |-> SubSeq(rest, length + 1, Len(rest))])
             ELSE [exc |-> "ValueError"]

(***************************************************************************)
(* Message.__init__: the packets the user thread owns.  Packet 1 has an    *)
(* empty payload; every later packet carries the byte 0x7E, which the      *)
(* serial encoder has to escape.                                           *)
(***************************************************************************)
Message_init(ptype, payload) ==
    [dispatch |-> 0, type |-> ptype, destination |-> NoneInt,
     source |-> NoneInt, group |-> NoneInt, payload |-> payload,
     footer |-> <<>>]

UserPacket(p) ==
    IF p = 1 THEN Message_init(0, <<>>)
             ELSE Message_init(p, <<HDLC_FRAMING_BYTE>>)

(***************************************************************************)
(* MessageDispatcher.__init__ defaults.                                    *)
(***************************************************************************)
DefaultAddress == 1
DefaultGroup == 34
DefaultDispatch == 0

AM_BROADCAST_ADDR == 65535

(***************************************************************************)
(* The packet types and handlers the user registers with a                 *)
(* MessageDispatcher.  A table without a key for a type holds Absent       *)
(* there; a key whose value is None holds None.                            *)
(***************************************************************************)
MaxType == 1

PacketTypes == 0..MaxType

Absent == "absent"

Handlers == {"callable"}

Dispatchers == {1, 2}

DispatchOf(d) == DefaultDispatch

DispatchBytes == {DispatchOf(d) : d \in Dispatchers}

(***************************************************************************)
(* Connection.connection_types                                             *)
(***************************************************************************)
connection_types == {"loopback", "sf", "serial"}

(***************************************************************************)
(* State.                                                                  *)
(***************************************************************************)
VARIABLES
    (* Connection (the supervisor) *)
    c_connected,        \* _connected event
    c_disconnected,     \* _disconnected event
    c_alive,            \* _alive event
    sup,                \* supervisor thread: "running", "stopped", "crashed",
                        \* or the line it is at inside a handler
    queue,              \* _queue: sequence of events
    real_connection,    \* _real_connection: a worker, or NoneInt
    connection_type,    \* _connection_type
    connection_info,    \* _connection_info
    reconnect_period,   \* _reconnect_period: NoneInt or a number of seconds
    elapsed,            \* whole seconds since _last_connect, up to Horizon
    event_cb,           \* _event_connected / _event_disconnected
    dispatchers,        \* _dispatchers: dispatch byte -> dispatcher (0: no entry)
    d_sender,           \* Dispatcher._sender is set
    (* the user thread *)
    u_pc,               \* where the user thread is inside a blocking call
    u_target,           \* the worker a blocked join waits for
    ret,                \* the user's last API call: "ok", "pending" (blocked
                        \* inside it) or the exception it raised
    packets,            \* the user's Message objects
    submitted,          \* packets already passed to Connection.send
    cb,                 \* per packet: the completion callbacks made so far
    receivers,          \* MessageDispatcher._receivers, per dispatcher
    default_receiver,   \* MessageDispatcher._default_receiver
    snoopers,           \* MessageDispatcher._snoopers
    default_snooper,    \* MessageDispatcher._default_snooper
    delivered,          \* the _deliver calls of the latest receive
    raised,             \* the exception the latest receive let through
    received,           \* data handed to Dispatcher.receive, in order
    (* transport workers *)
    w_kind,             \* class of the worker ("none": not constructed)
    w_pc,               \* thread position: "none", "start", "run", "done"
    w_alive,            \* _alive event
    w_connected,        \* _connected event
    w_port,             \* serial port / socket: "none", "open", "closed"
    seq_out,            \* SerialConnection._seq_out
    seq_in,             \* SerialConnection._seq_in
    outqueue,           \* SerialConnection._outqueue
    outgoing,           \* run(): the in-flight slot (a packet, or 0 for None)
    serialized,         \* run(): serialized bytes of the slot's packet
    tries,              \* run(): transmissions left
    expired,            \* run(): time.time() > timestamp + SERIAL_ACK_TIMEOUT
    recv_buf,           \* run(): recv_buf / SfConnection._recv_buf
    escape,             \* run(): escape
    recv_length,        \* SfConnection._recv_length
    rx,                 \* bytes the peer has sent that are not read yet
    written,            \* frames the worker's latest step wrote to its port
    logged,             \* what the worker's latest step logged (log.warning,
                        \* log.error), "" for nothing
    peer_sent,          \* frames the peers have sent
    (* history *)
    n_connected,        \* per worker: EVENT_CONNECTED enqueued (saturating)
    n_disconnected,     \* per worker: EVENT_DISCONNECTED enqueued (saturating)
    after_disc,         \* per worker: an event enqueued after DISCONNECTED
    unannounced         \* per worker: MESSAGE_INCOMING enqueued before the
                        \* session's EVENT_CONNECTED

supVars == <<c_connected, c_disconnected, c_alive, sup, queue, real_connection,
             connection_type, connection_info, reconnect_period, elapsed,
             event_cb>>

mdVars == <<receivers, default_receiver, snoopers, default_snooper,
            delivered, raised>>

dispVars == <<dispatchers, d_sender, mdVars>>

userVars == <<u_pc, u_target, ret, packets, submitted, cb, received>>

threadVars == <<w_kind, w_pc, w_alive, w_connected, w_port>>

serialVars == <<seq_out, seq_in, outqueue, outgoing, serialized, tries,
                expired, escape>>

ioVars == <<recv_buf, recv_length, rx, written, logged, peer_sent>>

histVars == <<n_connected, n_disconnected, after_disc, unannounced>>

vars == <<supVars, dispVars, userVars, threadVars, serialVars, ioVars,
          histVars>>

(***************************************************************************)
(* Events (connection_events.py).  An event carries a packet (OUTGOING,    *)
(* and the INCOMING of the loopback transport), or bytes (INCOMING), and   *)
(* the worker that enqueued it (0: the supervisor or the user thread).     *)
(***************************************************************************)
Event(type, pkt, data, src) ==
    [type |-> type, pkt |-> pkt, data |-> data, src |-> src]

(***************************************************************************)
(* Connection.__init__ (autostart) followed by nothing else: the           *)
(* supervisor thread runs, no transport exists, the flags read Idle.       *)
(***************************************************************************)
Init ==
    /\ c_connected = FALSE
    /\ c_disconnected = TRUE
    /\ c_alive = TRUE
    /\ sup = "running"
    /\ queue = <<>>
    /\ real_connection = NoneInt
    /\ connection_type = None
    /\ connection_info = None
    /\ reconnect_period = NoneInt
    /\ elapsed = 1
    /\ event_cb = None
    /\ dispatchers = [b \in DispatchBytes |-> 0]
    /\ d_sender = [d \in Dispatchers |-> FALSE]
    /\ receivers = [d \in Dispatchers |-> [t \in PacketTypes |-> Absent]]
    /\ default_receiver = [d \in Dispatchers |-> None]
    /\ snoopers = [d \in Dispatchers |-> [t \in PacketTypes |-> Absent]]
    /\ default_snooper = [d \in Dispatchers |-> None]
    /\ delivered = <<>>
    /\ raised = None
    /\ u_pc = "idle"
    /\ u_target = NoneInt
    /\ ret = "ok"
    /\ packets = [p \in Packets |-> UserPacket(p)]
    /\ submitted = {}
    /\ cb = [p \in Packets |-> <<>>]
    /\ received = <<>>
    /\ w_kind = [w \in Workers |-> "none"]
    /\ w_pc = [w \in Workers |-> "none"]
    /\ w_alive = [w \in Workers |-> FALSE]
    /\ w_connected = [w \in Workers |-> FALSE]
    /\ w_port = [w \in Workers |-> "none"]
    /\ seq_out = [w \in Workers |-> NoneInt]
    /\ seq_in = [w \in Workers |-> NoneInt]
    /\ outqueue = [w \in Workers |-> <<>>]
    /\ outgoing = [w \in Workers |-> 0]
    /\ serialized = [w \in Workers |-> <<>>]
    /\ tries = [w \in Workers |-> 0]
    /\ expired = [w \in Workers |-> FALSE]
    /\ recv_buf = [w \in Workers |-> <<>>]
    /\ escape = [w \in Workers |-> FALSE]
    /\ recv_length = [w \in Workers |-> 0]
    /\ rx = [w \in Workers |-> <<>>]
    /\ written = [w \in Workers |-> <<>>]
    /\ logged = [w \in Workers |-> ""]
    /\ peer_sent = 0
    /\ n_connected = [w \in Workers |-> 0]
    /\ n_disconnected = [w \in Workers |-> 0]
    /\ after_disc = [w \in Workers |-> FALSE]
    /\ unannounced = [w \in Workers |-> FALSE]

(***************************************************************************)
(* Queue.put on the supervisor queue by worker w, with the history the     *)
(* session claims are stated on.  types is the sequence of event types one *)
(* step enqueues.                                                          *)
(***************************************************************************)
Sat(n) == IF n >= 2 THEN 2 ELSE n + 1

Count(types, t) == Cardinality({i \in 1..Len(types) : types[i] = t})

RECURSIVE SatAdd(_, _)
SatAdd(n, k) == IF k = 0 THEN n ELSE SatAdd(Sat(n), k - 1)

FirstDisc(types) ==
    IF \E i \in 1..Len(types) : types[i] = "DISCONNECTED"
    THEN CHOOSE i \in 1..Len(types) :
            /\ types[i] = "DISCONNECTED"
            /\ \A j \in 1..(i - 1) : types[j] # "DISCONNECTED"
    ELSE 0

History(w, types) ==
    /\ n_connected' =
         [n_connected EXCEPT ![w] = SatAdd(@, Count(types, "CONNECTED"))]
    /\ n_disconnected' =
         [n_disconnected EXCEPT ![w] = SatAdd(@, Count(types, "DISCONNECTED"))]
    /\ after_disc' =
         [after_disc EXCEPT ![w] =
             \/ @
             \/ (n_disconnected[w] > 0 /\ types # <<>>)
             \/ (FirstDisc(types) # 0 /\ FirstDisc(types) < Len(types))]
    /\ unannounced' =
         [unannounced EXCEPT ![w] =
             \/ @
             \/ /\ n_connected[w] = 0
                /\ \E i \in 1..Len(types) :
                     /\ types[i] = "INCOMING"
                     /\ \A j \in 1..(i - 1) : types[j] # "CONNECTED"]

HasRoom(k) == Len(queue) + k <= MaxQueue

(***************************************************************************)
(* User thread: Connection.connect                                         *)
(***************************************************************************)
(* Connect with the arguments stored before the scheme is looked up. *)
Connect_StoredFirst(conntype, conninfo, reconnect, callback) ==
    /\ u_pc = "idle"
    /\ IF c_connected = FALSE /\ c_disconnected
       THEN /\ connection_type' = conntype
            /\ connection_info' = conninfo
            /\ reconnect_period' = reconnect
            /\ event_cb' = callback
            /\ IF conntype \in connection_types
               THEN /\ HasRoom(1)
                    /\ c_disconnected' = FALSE
                    /\ queue' = Append(queue, Event("START_CONNECT", 0, <<>>, 0))
                    /\ ret' = "ok"
               ELSE /\ ret' = "ConnectionException"
                    /\ UNCHANGED <<c_disconnected, queue>>
       ELSE /\ ret' = "ConnectionBusyException"
            /\ UNCHANGED <<connection_type, connection_info, reconnect_period,
                           event_cb, c_disconnected, queue>>
    /\ UNCHANGED <<c_connected, c_alive, sup, real_connection, elapsed,
                   dispVars, u_pc, u_target, packets, submitted, cb,
                   received, threadVars, serialVars, ioVars, histVars>>

Connect(conntype, conninfo, reconnect, callback) ==
    /\ u_pc = "idle"
    /\ IF c_connected = FALSE /\ c_disconnected
       THEN IF conntype \in connection_types
            THEN /\ HasRoom(1)
                 /\ connection_type' = conntype
                 /\ connection_info' = conninfo
                 /\ reconnect_period' = reconnect
                 /\ event_cb' = callback
                 /\ c_disconnected' = FALSE
                 /\ queue' = Append(queue, Event("START_CONNECT", 0, <<>>, 0))
                 /\ ret' = "ok"
            ELSE /\ ret' = "ConnectionException"
                 /\ UNCHANGED <<connection_type, connection_info,
                                reconnect_period, event_cb, c_disconnected,
                                queue>>
       ELSE /\ ret' = "ConnectionBusyException"
            /\ UNCHANGED <<connection_type, connection_info, reconnect_period,
                           event_cb, c_disconnected, queue>>
    /\ UNCHANGED <<c_connected, c_alive, sup, real_connection, elapsed,
                   dispVars, u_pc, u_target, packets, submitted, cb,
                   received, threadVars, serialVars, ioVars, histVars>>

(***************************************************************************)
(* User thread: Connection.send -> MessageDispatcher.send -> the attached  *)
(* sender, Connection._subsend.                                            *)
(***************************************************************************)
MessageDispatcher_send(message) ==
    [message EXCEPT
        !.source = IF @ = NoneInt THEN DefaultAddress ELSE @,
        !.group  = IF @ = NoneInt THEN DefaultGroup ELSE @]

Send(p) ==
    /\ u_pc = "idle"
    /\ p \notin submitted
    /\ IF dispatchers[packets[p].dispatch] # 0
       THEN /\ submitted' = submitted \cup {p}
            /\ packets' = [packets EXCEPT ![p] = MessageDispatcher_send(@)]
            /\ ret' = "ok"
            /\ IF real_connection # NoneInt
               THEN /\ HasRoom(1)
                    /\ queue' = Append(queue, Event("OUTGOING", p, <<>>, 0))
                    /\ UNCHANGED cb
               ELSE /\ cb' = [cb EXCEPT ![p] = Append(@, FALSE)]
                    /\ UNCHANGED queue
       ELSE /\ ret' = "DispatcherError"
            /\ UNCHANGED <<submitted, packets, queue, cb>>
    /\ UNCHANGED <<c_connected, c_disconnected, c_alive, sup, real_connection,
                   connection_type, connection_info, reconnect_period, elapsed,
                   event_cb, dispVars, u_pc, u_target, received, threadVars,
                   serialVars, ioVars, histVars>>

(***************************************************************************)
(* User thread: register_dispatcher / remove_dispatcher, Dispatcher.attach *)
(* and detach.                                                             *)
(***************************************************************************)
Detached_Never(table, senders, dispatch) == senders

Detached(table, senders, dispatch) ==
    IF table[dispatch] # 0
    THEN [senders EXCEPT ![table[dispatch]] = FALSE]
    ELSE senders

RemoveDispatcher(dispatch) ==
    /\ u_pc = "idle"
    /\ d_sender' = Detached(dispatchers, d_sender, dispatch)
    /\ dispatchers' = [dispatchers EXCEPT ![dispatch] = 0]
    /\ UNCHANGED <<supVars, mdVars, u_pc, u_target, ret, packets, submitted, cb,
                   received, threadVars, serialVars, ioVars, histVars>>

RegisterDispatcher(d) ==
    /\ u_pc = "idle"
    /\ d_sender' =
         [Detached(dispatchers, d_sender, DispatchOf(d)) EXCEPT ![d] = TRUE]
    /\ dispatchers' = [dispatchers EXCEPT ![DispatchOf(d)] = d]
    /\ UNCHANGED <<supVars, mdVars, u_pc, u_target, ret, packets, submitted, cb,
                   received, threadVars, serialVars, ioVars, histVars>>

(***************************************************************************)
(* User thread: the handler tables of MessageDispatcher d.                 *)
(***************************************************************************)
DispFrame ==
    UNCHANGED <<supVars, dispatchers, d_sender, delivered, raised, userVars,
                threadVars, serialVars, ioVars, histVars>>

Registered(table, ptype, handler) ==
    IF handler = None /\ table[ptype] # Absent
    THEN [table EXCEPT ![ptype] = Absent]
    ELSE [table EXCEPT ![ptype] = handler]

register_receiver(d, ptype, receiver) ==
    /\ u_pc = "idle"
    /\ receivers' = [receivers EXCEPT ![d] = Registered(@, ptype, receiver)]
    /\ UNCHANGED <<default_receiver, snoopers, default_snooper>>
    /\ DispFrame

deregister_receiver(d, ptype, receiver) ==
    /\ u_pc = "idle"
    /\ receivers' = [receivers EXCEPT ![d][ptype] =
                        IF @ # Absent /\ @ = receiver THEN Absent ELSE @]
    /\ UNCHANGED <<default_receiver, snoopers, default_snooper>>
    /\ DispFrame

register_default_receiver(d, receiver) ==
    /\ u_pc = "idle"
    /\ default_receiver' = [default_receiver EXCEPT ![d] = receiver]
    /\ UNCHANGED <<receivers, snoopers, default_snooper>>
    /\ DispFrame

deregister_default_receiver(d) ==
    /\ u_pc = "idle"
    /\ default_receiver' = [default_receiver EXCEPT ![d] = None]
    /\ UNCHANGED <<receivers, snoopers, default_snooper>>
    /\ DispFrame

register_snooper(d, ptype, snooper) ==
    /\ u_pc = "idle"
    /\ snoopers' = [snoopers EXCEPT ![d] = Registered(@, ptype, snooper)]
    /\ UNCHANGED <<receivers, default_receiver, default_snooper>>
    /\ DispFrame

register_default_snooper(d, snooper) ==
    /\ u_pc = "idle"
    /\ default_snooper' = [default_snooper EXCEPT ![d] = snooper]
    /\ UNCHANGED <<receivers, default_receiver, snoopers>>
    /\ DispFrame

deregister_default_snooper(d) ==
    /\ u_pc = "idle"
    /\ default_snooper' = [default_snooper EXCEPT ![d] = None]
    /\ UNCHANGED <<receivers, default_receiver, snoopers>>
    /\ DispFrame

(***************************************************************************)
(* Dispatcher._deliver and MessageDispatcher.receive.  A _deliver call is  *)
(* recorded with the table it was taken from.  A receiver that is None is  *)
(* called like any other: None(message) raises TypeError, which receive    *)
(* does not catch.  The ValueError of deserialize is caught and logged.    *)
(***************************************************************************)
_deliver(receiver, message, via) ==
    [delivered |-> <<[receiver |-> receiver, message |-> message,
                      via |-> via]>>,
     raised |-> IF receiver = None THEN "TypeError" ELSE None]

Dropped == [delivered |-> <<>>, raised |-> None]

Lookup(table, ptype) ==
    IF ptype \in DOMAIN table THEN table[ptype] ELSE Absent

MessageDispatcher_receive_Snooped(d, data) ==
    LET r == Message_deserialize(data)
    IN  IF r.exc # None
        THEN Dropped
        ELSE LET m == r.message
             IN  IF Lookup(snoopers[d], m.type) # Absent
                 THEN _deliver(snoopers[d][m.type], m, "snoopers")
                 ELSE IF default_snooper[d] # None
                 THEN _deliver(default_snooper[d], m, "default_snooper")
                 ELSE Dropped

MessageDispatcher_receive(d, data) ==
    LET r == Message_deserialize(data)
    IN  IF r.exc # None
        THEN Dropped
        ELSE LET m == r.message
             IN  IF m.destination \in {DefaultAddress, 0, AM_BROADCAST_ADDR}
                 THEN IF Lookup(receivers[d], m.type) # Absent
                      THEN _deliver(receivers[d][m.type], m, "receivers")
                      ELSE IF default_receiver[d] # None
                      THEN _deliver(default_receiver[d], m, "default_receiver")
                      ELSE Dropped
                 ELSE IF Lookup(snoopers[d], m.type) # Absent
                      THEN _deliver(snoopers[d][m.type], m, "snoopers")
                      ELSE IF default_snooper[d] # None
                      THEN _deliver(default_snooper[d], m, "default_snooper")
                      ELSE Dropped

(***************************************************************************)
(* Supervisor thread: Connection.run, one action per branch of the loop.   *)
(***************************************************************************)
SupRunning == sup = "running" /\ c_alive

HeadIs(type) == queue # <<>> /\ Head(queue).type = type

(* The loop condition fails: run() returns. *)
SupExit ==
    /\ sup = "running"
    /\ ~c_alive
    /\ sup' = "stopped"
    /\ UNCHANGED <<c_connected, c_disconnected, c_alive, queue, real_connection,
                   connection_type, connection_info, reconnect_period, elapsed,
                   event_cb, dispVars, userVars, threadVars, serialVars, ioVars,
                   histVars>>

(* MESSAGE_INCOMING: item.encode("hex") is evaluated for the log line; the *)
(* loopback transport enqueues the Message object itself, which has no     *)
(* encode attribute, so the AttributeError ends the thread.  Otherwise     *)
(* Connection._receive hands the bytes to the dispatcher of data[0].       *)
_receive(data) ==
    IF Len(data) > 0
          /\ data[1] \in DOMAIN dispatchers
          /\ dispatchers[data[1]] # 0
    THEN Append(received, data)
    ELSE received

Dispatched(data) ==
    IF Len(data) > 0 /\ data[1] \in DOMAIN dispatchers
    THEN dispatchers[data[1]]
    ELSE 0

Receiving(data) ==
    /\ received' = _receive(data)
    /\ LET r == IF Dispatched(data) # 0
                THEN MessageDispatcher_receive(Dispatched(data), data)
                ELSE Dropped
       IN  /\ delivered' = r.delivered
           /\ raised' = r.raised

HandleIncoming ==
    /\ SupRunning
    /\ HeadIs("INCOMING")
    /\ queue' = Tail(queue)
    /\ IF Head(queue).pkt # 0
       THEN sup' = "crashed" /\ UNCHANGED <<received, delivered, raised>>
       ELSE /\ Receiving(Head(queue).data)
            /\ sup' = IF raised' # None THEN "crashed" ELSE sup
    /\ UNCHANGED <<c_connected, c_disconnected, c_alive, real_connection,
                   connection_type, connection_info, reconnect_period, elapsed,
                   event_cb, dispatchers, d_sender, receivers,
                   default_receiver, snoopers, default_snooper, u_pc,
                   u_target, ret, packets, submitted, cb, threadVars,
                   serialVars, ioVars, histVars>>

(***************************************************************************)
(* The MESSAGE_INCOMING branch, statement by statement: the membership     *)
(* test of line 145 and the subscript of line 146 are two reads of         *)
(* _dispatchers, a dict that register_dispatcher and remove_dispatcher     *)
(* change from the user thread without a lock.  The item the supervisor    *)
(* holds stays at the head of queue until the second read; a subscript     *)
(* that misses raises KeyError, which run() does not catch.                *)
(***************************************************************************)
ReceiveFrame ==
    UNCHANGED <<c_connected, c_disconnected, c_alive, real_connection,
                connection_type, connection_info, reconnect_period, elapsed,
                event_cb, dispatchers, d_sender, receivers,
                default_receiver, snoopers, default_snooper, u_pc,
                u_target, ret, packets, submitted, cb, threadVars,
                serialVars, ioVars, histVars>>

ReceiveCheck ==
    /\ SupRunning
    /\ HeadIs("INCOMING")
    /\ Head(queue).pkt = 0
    /\ IF Dispatched(Head(queue).data) # 0
       THEN /\ sup' = "line 146"
            /\ UNCHANGED <<queue, received, delivered, raised>>
       ELSE /\ queue' = Tail(queue)
            /\ Receiving(Head(queue).data)
            /\ UNCHANGED sup
    /\ ReceiveFrame

ReceiveLookup ==
    /\ sup = "line 146"
    /\ queue' = Tail(queue)
    /\ IF Dispatched(Head(queue).data) # 0
       THEN /\ Receiving(Head(queue).data)
            /\ sup' = IF raised' # None THEN "crashed" ELSE "running"
       ELSE /\ sup' = "crashed"
            /\ UNCHANGED <<received, delivered, raised>>
    /\ ReceiveFrame

(* Connection._receive, called outside the event loop *)
Connection_receive(data) ==
    /\ Len(received) < MaxReceived
    /\ Receiving(data)
    /\ UNCHANGED <<supVars, dispatchers, d_sender, receivers,
                   default_receiver, snoopers, default_snooper, u_pc,
                   u_target, ret, packets, submitted, cb, threadVars,
                   serialVars, ioVars, histVars>>

(* EVENT_CONNECTED *)
HandleConnected ==
    /\ SupRunning
    /\ HeadIs("CONNECTED")
    /\ queue' = Tail(queue)
    /\ c_connected' = TRUE
    /\ c_disconnected' = FALSE
    /\ UNCHANGED <<c_alive, sup, real_connection, connection_type,
                   connection_info, reconnect_period, elapsed, event_cb,
                   dispVars, userVars, threadVars, serialVars, ioVars,
                   histVars>>

(* EVENT_DISCONNECTED *)
HandleDisconnected ==
    /\ SupRunning
    /\ HeadIs("DISCONNECTED")
    /\ queue' = Tail(queue)
    /\ c_connected' = FALSE
    /\ c_disconnected' = TRUE
    /\ UNCHANGED <<c_alive, sup, real_connection, connection_type,
                   connection_info, reconnect_period, elapsed, event_cb,
                   dispVars, userVars, threadVars, serialVars, ioVars,
                   histVars>>

(***************************************************************************)
(* The two handlers above, statement by statement.  _connected.set() and   *)
(* _disconnected.clear() (lines 164-165), _connected.clear() and           *)
(* _disconnected.set() (lines 170-171) are separate calls on two           *)
(* threading.Event objects: another thread can read the flags between      *)
(* them.  sup names the statement the supervisor thread is at.             *)
(***************************************************************************)
FlagFrame ==
    UNCHANGED <<c_alive, real_connection, connection_type, connection_info,
                reconnect_period, elapsed, event_cb, dispVars, userVars,
                threadVars, serialVars, ioVars, histVars>>

ConnectedSet ==
    /\ SupRunning
    /\ HeadIs("CONNECTED")
    /\ queue' = Tail(queue)
    /\ c_connected' = TRUE
    /\ sup' = "line 165"
    /\ UNCHANGED c_disconnected
    /\ FlagFrame

DisconnectedClear ==
    /\ sup = "line 165"
    /\ c_disconnected' = FALSE
    /\ sup' = "running"
    /\ UNCHANGED <<c_connected, queue>>
    /\ FlagFrame

ConnectedClear ==
    /\ SupRunning
    /\ HeadIs("DISCONNECTED")
    /\ queue' = Tail(queue)
    /\ c_connected' = FALSE
    /\ sup' = "line 171"
    /\ UNCHANGED c_disconnected
    /\ FlagFrame

DisconnectedSet ==
    /\ sup = "line 171"
    /\ c_disconnected' = TRUE
    /\ sup' = "running"
    /\ UNCHANGED <<c_connected, queue>>
    /\ FlagFrame

(* EVENT_START_CONNECT: Connection._connect constructs the transport named *)
(* by _connection_type; each constructor ends with self.start().           *)
require_acks(acks) == acks # "NOACK"

FreeWorker(w) ==
    /\ w_kind[w] = "none"
    /\ \A v \in Workers : v < w => w_kind[v] # "none"

HandleStartConnect ==
    /\ SupRunning
    /\ HeadIs("START_CONNECT")
    /\ queue' = Tail(queue)
    /\ elapsed' = 0
    /\ \E w \in Workers :
        /\ FreeWorker(w)
        /\ real_connection' = w
        /\ w_kind' = [w_kind EXCEPT ![w] = connection_type]
        /\ w_pc' = [w_pc EXCEPT ![w] = "start"]
        /\ w_alive' = [w_alive EXCEPT ![w] = connection_type # "loopback"]
        /\ w_port' = [w_port EXCEPT ![w] =
                        IF connection_type = "sf" THEN "open" ELSE "none"]
        /\ seq_out' = [seq_out EXCEPT ![w] =
                        IF connection_type = "serial"
                               /\ require_acks(connection_info)
                        THEN 0 ELSE NoneInt]
    /\ UNCHANGED <<c_connected, c_disconnected, c_alive, sup, connection_type,
                   connection_info, reconnect_period, event_cb, dispVars,
                   userVars, w_connected, seq_in, outqueue, outgoing,
                   serialized, tries, expired, escape, ioVars, histVars>>

(* Queue.Empty after the 1.0 s timeout: the reconnect branch.  At least one *)
(* second has passed since the previous iteration; t is the new reading of *)
(* the time since _last_connect, in whole seconds.  Readings beyond the     *)
(* reconnect period are not told apart: they all satisfy the comparison of *)
(* line 181.                                                               *)
Horizon == IF reconnect_period = NoneInt \/ reconnect_period < 0
           THEN 1 ELSE reconnect_period + 1

QueueEmpty_Early ==
    /\ SupRunning
    /\ queue = <<>>
    /\ \E t \in 1..Horizon :
        /\ t > elapsed \/ t = Horizon
        /\ elapsed' = t
    /\ IF /\ c_disconnected
          /\ reconnect_period # NoneInt
          /\ reconnect_period >= 0
       THEN queue' = Append(queue, Event("START_CONNECT", 0, <<>>, 0))
       ELSE UNCHANGED queue
    /\ UNCHANGED <<c_connected, c_disconnected, c_alive, sup, real_connection,
                   connection_type, connection_info, reconnect_period,
                   event_cb, dispVars, userVars, threadVars, serialVars,
                   ioVars, histVars>>

QueueEmpty ==
    /\ SupRunning
    /\ queue = <<>>
    /\ \E t \in 1..Horizon :
        /\ t > elapsed \/ t = Horizon
        /\ elapsed' = t
    /\ IF /\ c_disconnected
          /\ reconnect_period # NoneInt
          /\ reconnect_period >= 0
          /\ elapsed' > reconnect_period
       THEN queue' = Append(queue, Event("START_CONNECT", 0, <<>>, 0))
       ELSE UNCHANGED queue
    /\ UNCHANGED <<c_connected, c_disconnected, c_alive, sup, real_connection,
                   connection_type, connection_info, reconnect_period,
                   event_cb, dispVars, userVars, threadVars, serialVars,
                   ioVars, histVars>>

(***************************************************************************)
(* A transport worker's own state as one record, and the effect of one     *)
(* step on it: the new record n, the event types and events it enqueues on *)
(* the supervisor queue (in order), and the completion callbacks it makes. *)
(* A step that writes nothing leaves written empty, one that logs no       *)
(* warning or error leaves logged empty.                                   *)
(***************************************************************************)
Cur(w) ==
    [pc |-> w_pc[w], alive |-> w_alive[w], connected |-> w_connected[w],
     port |-> w_port[w], seq_out |-> seq_out[w], seq_in |-> seq_in[w],
     outqueue |-> outqueue[w], outgoing |-> outgoing[w],
     serialized |-> serialized[w], tries |-> tries[w],
     expired |-> expired[w], recv_buf |-> recv_buf[w],
     escape |-> escape[w], recv_length |-> recv_length[w], rx |-> rx[w],
     written |-> <<>>, logged |-> ""]

Types(evs) == [i \in 1..Len(evs) |-> evs[i].type]

RECURSIVE Called(_, _)
Called(calls, done) ==
    IF done = <<>> THEN calls
    ELSE Called([calls EXCEPT ![Head(done)[1]] = Append(@, Head(done)[2])],
                Tail(done))

(* Queue.put of the events of one step, in the order the step makes them *)
Put_Front(q, evs) == evs \o q

Put(q, evs) == q \o evs

ApplyQ(w, n, q, evs, done) ==
    /\ Len(q) + Len(evs) <= MaxQueue
    /\ w_pc' = [w_pc EXCEPT ![w] = n.pc]
    /\ w_alive' = [w_alive EXCEPT ![w] = n.alive]
    /\ w_connected' = [w_connected EXCEPT ![w] = n.connected]
    /\ w_port' = [w_port EXCEPT ![w] = n.port]
    /\ seq_out' = [seq_out EXCEPT ![w] = n.seq_out]
    /\ seq_in' = [seq_in EXCEPT ![w] = n.seq_in]
    /\ outqueue' = [outqueue EXCEPT ![w] = n.outqueue]
    /\ outgoing' = [outgoing EXCEPT ![w] = n.outgoing]
    /\ serialized' = [serialized EXCEPT ![w] = n.serialized]
    /\ tries' = [tries EXCEPT ![w] = n.tries]
    /\ expired' = [expired EXCEPT ![w] = n.expired]
    /\ recv_buf' = [recv_buf EXCEPT ![w] = n.recv_buf]
    /\ escape' = [escape EXCEPT ![w] = n.escape]
    /\ recv_length' = [recv_length EXCEPT ![w] = n.recv_length]
    /\ rx' = [rx EXCEPT ![w] = n.rx]
    /\ written' = [written EXCEPT ![w] = n.written]
    /\ logged' = [logged EXCEPT ![w] = n.logged]
    /\ UNCHANGED peer_sent
    /\ queue' = Put(q, evs)
    /\ History(w, Types(evs))
    /\ cb' = Called(cb, done)

Apply(w, n, evs, done) == ApplyQ(w, n, queue, evs, done)

(* What a worker thread's step leaves alone. *)
WorkerFrame ==
    UNCHANGED <<c_connected, c_disconnected, c_alive, sup, real_connection,
                connection_type, connection_info, reconnect_period, elapsed,
                event_cb, dispVars, u_pc, u_target, ret, packets, submitted,
                received, w_kind>>

(***************************************************************************)
(* SerialConnection._disconnected, as run()'s finally clause reaches it:   *)
(* the flag is cleared, EVENT_DISCONNECTED enqueued and the thread ends.   *)
(***************************************************************************)
Finally(w, n, evs) ==
    [n |-> [n EXCEPT !.connected = FALSE, !.pc = "done"],
     evs |-> evs \o <<Event("DISCONNECTED", 0, <<>>, w)>>,
     done |-> <<>>]

(* except (serial.SerialException, OSError): log.error, then finally. *)
Failed(w, n, evs) == Finally(w, [n EXCEPT !.logged = "serial.error"], evs)

Continue(n, evs, done) == [n |-> n, evs |-> evs, done |-> done]

Step(w, r) == Apply(w, r.n, r.evs, r.done) /\ WorkerFrame

(***************************************************************************)
(* SerialConnection.run before the loop: serial.Serial(...) opens the port *)
(* or raises SerialException.                                              *)
(***************************************************************************)
SerialOpened(w, n) ==
    Continue([n EXCEPT !.port = "open", !.connected = TRUE, !.pc = "run",
                       !.outgoing = 0, !.serialized = <<>>, !.tries = 0,
                       !.expired = FALSE, !.recv_buf = <<>>,
                       !.escape = FALSE],
             <<Event("CONNECTED", 0, <<>>, w)>>, <<>>)

SerialOpen(w) ==
    /\ w_kind[w] = "serial"
    /\ w_pc[w] = "start"
    /\ \E ok \in BOOLEAN :
         Step(w, IF ok THEN SerialOpened(w, Cur(w))
                       ELSE Failed(w, Cur(w), <<>>))

(* while self._alive.isSet() fails: the loop is left. *)
SerialExit(w) ==
    /\ w_kind[w] = "serial"
    /\ w_pc[w] = "run"
    /\ ~w_alive[w]
    /\ Step(w, Finally(w, Cur(w), <<>>))

(* serial_port.read() raises: the port was closed by join(), or failed. *)
SerialReadError(w) ==
    /\ w_kind[w] = "serial"
    /\ w_pc[w] = "run"
    /\ w_alive[w]
    /\ Step(w, Failed(w, Cur(w), <<>>))

(***************************************************************************)
(* The port write at the end of _write(seq, packet): io_ok is whether      *)
(* serial_port.write succeeds.  Any exception leaves run() through its     *)
(* finally clause: SerialException is caught by the outer except, the      *)
(* TypeError and UnicodeDecodeError of the encoder are not.                *)
(***************************************************************************)
Wrote(wr, io_ok) == wr.exc = None /\ io_ok

WriteFailed(w, n, wr, evs) ==
    IF wr.exc # None THEN Finally(w, n, evs) ELSE Failed(w, n, evs)

(***************************************************************************)
(* run(), a frame delimiter with a non-empty buffer (lines 210-244).       *)
(***************************************************************************)
(* except SerialPacketException (lines 241-242) *)
Caught_Nothing(r) == FALSE

Caught(r) == r.exc = "SerialPacketException"

(* RxFrame without the comparison with _seq_in. *)
RxFrame_NoDuplicates(w, n, io_ok) ==
    LET r == _process_incoming_packet(n.recv_buf)
        m == [n EXCEPT !.recv_buf = <<>>]
    IN  IF Caught(r)
        THEN Continue([m EXCEPT !.logged = r.msg], <<>>, <<>>)
        ELSE IF r.exc # None
        THEN Finally(w, m, <<>>)
        ELSE IF r.seq = NoneInt
        THEN Continue(m, <<Event("INCOMING", 0, r.packet, w)>>, <<>>)
        ELSE IF r.packet # NoneBytes
        THEN LET fresh == TRUE
                 evs == IF fresh THEN <<Event("INCOMING", 0, r.packet, w)>>
                                 ELSE <<>>
                 k  == [m EXCEPT !.seq_in = IF fresh THEN r.seq ELSE @,
                                 !.logged = IF fresh THEN "" ELSE "duplicate"]
                 wr == _write(r.seq, NoneBytes)
             IN  IF Wrote(wr, io_ok)
                 THEN Continue([k EXCEPT !.written = <<wr.bytes>>], evs, <<>>)
                 ELSE WriteFailed(w, k, wr, evs)
        ELSE IF n.outgoing # 0 /\ n.seq_out # NoneInt /\ r.seq = n.seq_out
        THEN Continue([m EXCEPT !.outgoing = 0,
                                !.seq_out = (n.seq_out + 1) % 256],
                      <<>>, <<<<n.outgoing, TRUE>>>>)
        ELSE Continue([m EXCEPT !.logged =
                           IF n.outgoing # 0 /\ n.seq_out # NoneInt
                           THEN "ack, waiting other" ELSE "ack, waiting none"],
                      <<>>, <<>>)

(* The test of an ACK against the outgoing slot (lines 229-230), and the   *)
(* same test without the comparison of the sequence numbers.               *)
AckExpected_AnySeq(n, seq) == n.outgoing # 0 /\ n.seq_out # NoneInt

AckExpected(n, seq) ==
    n.outgoing # 0 /\ n.seq_out # NoneInt /\ seq = n.seq_out

(* The slot after the callback of an expected ACK (lines 234-235), and the *)
(* same with the packet left in the slot.                                  *)
AckCompleted_SlotKept(n) == [n EXCEPT !.seq_out = (n.seq_out + 1) % 256]

AckCompleted(n) ==
    [n EXCEPT !.outgoing = 0, !.seq_out = (n.seq_out + 1) % 256]

RxFrame(w, n, io_ok) ==
    LET r == _process_incoming_packet(n.recv_buf)
        m == [n EXCEPT !.recv_buf = <<>>]
    IN  IF Caught(r)
        THEN Continue([m EXCEPT !.logged = r.msg], <<>>, <<>>)
        ELSE IF r.exc # None
        THEN Finally(w, m, <<>>)
        ELSE IF r.seq = NoneInt
        THEN Continue(m, <<Event("INCOMING", 0, r.packet, w)>>, <<>>)
        ELSE IF r.packet # NoneBytes
        THEN LET fresh == r.seq # n.seq_in
                 evs == IF fresh THEN <<Event("INCOMING", 0, r.packet, w)>>
                                 ELSE <<>>
                 k  == [m EXCEPT !.seq_in = IF fresh THEN r.seq ELSE @,
                                 !.logged = IF fresh THEN "" ELSE "duplicate"]
                 wr == _write(r.seq, NoneBytes)
             IN  IF Wrote(wr, io_ok)
                 THEN Continue([k EXCEPT !.written = <<wr.bytes>>], evs, <<>>)
                 ELSE WriteFailed(w, k, wr, evs)
        ELSE IF AckExpected(n, r.seq)
        THEN Continue(AckCompleted(m), <<>>, <<<<n.outgoing, TRUE>>>>)
        ELSE Continue([m EXCEPT !.logged =
                           IF n.outgoing # 0 /\ n.seq_out # NoneInt
                           THEN "ack, waiting other" ELSE "ack, waiting none"],
                      <<>>, <<>>)

(***************************************************************************)
(* run(), read() returned one byte (lines 207-252).  The un-escaped byte   *)
(* goes through codecs.encode(chr(x)), which raises for x >= 128.          *)
(***************************************************************************)
(* RxByte that stores the byte after 0x7D as it came. *)
RxByte_NoUnescape(w, n, data, io_ok) ==
    IF data = HDLC_FRAMING_BYTE
    THEN IF Len(n.recv_buf) > 0 THEN RxFrame(w, n, io_ok)
                                ELSE Continue(n, <<>>, <<>>)
    ELSE IF data = HDLC_ESCAPE_BYTE
    THEN Continue([n EXCEPT !.escape = TRUE], <<>>, <<>>)
    ELSE Continue([n EXCEPT !.escape = FALSE,
                            !.recv_buf = Append(@, data)], <<>>, <<>>)

RxByte(w, n, data, io_ok) ==
    IF data = HDLC_FRAMING_BYTE
    THEN IF Len(n.recv_buf) > 0 THEN RxFrame(w, n, io_ok)
                                ELSE Continue(n, <<>>, <<>>)
    ELSE IF data = HDLC_ESCAPE_BYTE
    THEN Continue([n EXCEPT !.escape = TRUE], <<>>, <<>>)
    ELSE IF n.escape
    THEN LET x == Xor(data, HDLC_XOR_BYTE)
         IN  IF x >= 128
             THEN Finally(w, [n EXCEPT !.escape = FALSE], <<>>)
             ELSE Continue([n EXCEPT !.escape = FALSE,
                                     !.recv_buf = Append(@, x)], <<>>, <<>>)
    ELSE Continue([n EXCEPT !.recv_buf = Append(@, data)], <<>>, <<>>)

(* The loop iterations that read the bytes up to the next frame delimiter  *)
(* touch only recv_buf and escape, which no other thread sees: they are    *)
(* taken together with the iteration that reads the delimiter.             *)
RECURSIVE RxBytes(_, _, _)
RxBytes(w, n, io_ok) ==
    LET data == Head(n.rx)
        r == RxByte(w, [n EXCEPT !.rx = Tail(@)], data, io_ok)
    IN  IF data = HDLC_FRAMING_BYTE \/ r.n.pc # "run" \/ r.n.rx = <<>>
        THEN r
        ELSE RxBytes(w, r.n, io_ok)

SerialRx(w) ==
    /\ w_kind[w] = "serial"
    /\ w_pc[w] = "run"
    /\ w_alive[w]
    /\ w_port[w] = "open"
    /\ rx[w] # <<>>
    /\ \E io_ok \in BOOLEAN : Step(w, RxBytes(w, Cur(w), io_ok))

(***************************************************************************)
(* run(), read() returned nothing (lines 253-280): the outgoing slot.      *)
(***************************************************************************)
(* Fetch without the test of the slot. *)
Fetch_Occupied(n) ==
    IF n.outqueue # <<>>
    THEN [n EXCEPT !.outgoing = Head(n.outqueue),
                   !.outqueue = Tail(n.outqueue),
                   !.serialized = Message_serialize(packets[Head(n.outqueue)]),
                   !.tries = SERIAL_SEND_TRIES,
                   !.expired = TRUE]
    ELSE n

Fetch(n) ==
    IF n.outgoing = 0 /\ n.outqueue # <<>>
    THEN [n EXCEPT !.outgoing = Head(n.outqueue),
                   !.outqueue = Tail(n.outqueue),
                   !.serialized = Message_serialize(packets[Head(n.outqueue)]),
                   !.tries = SERIAL_SEND_TRIES,
                   !.expired = TRUE]
    ELSE n

(* Service with an abandoned packet leaving _seq_out as it is. *)
Service_NoAdvance(w, n, io_ok) ==
    IF n.outgoing # 0 /\ n.expired
    THEN IF n.tries > 0
         THEN LET wr == _write(n.seq_out, n.serialized)
              IN  IF ~Wrote(wr, io_ok)
                  THEN WriteFailed(w, n, wr, <<>>)
                  ELSE IF n.seq_out # NoneInt
                  THEN Continue([n EXCEPT !.written = <<wr.bytes>>,
                                          !.tries = @ - 1,
                                          !.expired = FALSE], <<>>, <<>>)
                  ELSE Continue([n EXCEPT !.written = <<wr.bytes>>,
                                          !.outgoing = 0],
                                <<>>, <<<<n.outgoing, FALSE>>>>)
         ELSE Continue([n EXCEPT !.outgoing = 0,
                                 !.logged = IF n.seq_out # NoneInt
                                            THEN "ack not received" ELSE ""],
                       <<>>, <<<<n.outgoing, FALSE>>>>)
    ELSE Continue(n, <<>>, <<>>)

Service(w, n, io_ok) ==
    IF n.outgoing # 0 /\ n.expired
    THEN IF n.tries > 0
         THEN LET wr == _write(n.seq_out, n.serialized)
              IN  IF ~Wrote(wr, io_ok)
                  THEN WriteFailed(w, n, wr, <<>>)
                  ELSE IF n.seq_out # NoneInt
                  THEN Continue([n EXCEPT !.written = <<wr.bytes>>,
                                          !.tries = @ - 1,
                                          !.expired = FALSE], <<>>, <<>>)
                  ELSE Continue([n EXCEPT !.written = <<wr.bytes>>,
                                          !.outgoing = 0],
                                <<>>, <<<<n.outgoing, FALSE>>>>)
         ELSE Continue([n EXCEPT !.outgoing = 0,
                                 !.seq_out = IF @ # NoneInt
                                             THEN (@ + 1) % 256 ELSE @,
                                 !.logged = IF n.seq_out # NoneInt
                                            THEN "ack not received" ELSE ""],
                       <<>>, <<<<n.outgoing, FALSE>>>>)
    ELSE Continue(n, <<>>, <<>>)

SerialIdle(w) ==
    /\ w_kind[w] = "serial"
    /\ w_pc[w] = "run"
    /\ w_alive[w]
    /\ w_port[w] = "open"
    /\ rx[w] = <<>>
    /\ \E io_ok \in BOOLEAN : Step(w, Service(w, Fetch(Cur(w)), io_ok))

(* SERIAL_ACK_TIMEOUT passes since timestamp. *)
AckTimeout(w) ==
    /\ w_kind[w] = "serial"
    /\ w_pc[w] = "run"
    /\ outgoing[w] # 0
    /\ ~expired[w]
    /\ expired' = [expired EXCEPT ![w] = TRUE]
    /\ UNCHANGED <<supVars, dispVars, userVars, threadVars, seq_out, seq_in,
                   outqueue, outgoing, serialized, tries, escape, ioVars,
                   histVars>>

(***************************************************************************)
(* SfConnection.run.  _disconnected clears the flag, enqueues              *)
(* EVENT_DISCONNECTED and closes the socket; run() reaches it through its  *)
(* finally clause, send() through its except clause.                       *)
(***************************************************************************)
SfDisconnected(w, n, evs, done) ==
    [n |-> [n EXCEPT !.connected = FALSE, !.port = "closed"],
     evs |-> evs \o <<Event("DISCONNECTED", 0, <<>>, w)>>,
     done |-> done]

SfFinally(w, n, evs) ==
    LET r == SfDisconnected(w, n, evs, <<>>)
    IN  [r EXCEPT !.n.pc = "done"]

(* _connect: connect, handshake; socket.error when the socket was closed  *)
(* by join(), the peer refuses or the handshake differs.                   *)
SfConnect(w) ==
    /\ w_kind[w] = "sf"
    /\ w_pc[w] = "start"
    /\ \E ok \in BOOLEAN :
        /\ ok => w_port[w] = "open"
        /\ Step(w, IF ok
                   THEN Continue([Cur(w) EXCEPT !.connected = TRUE,
                                                !.pc = "run"],
                                 <<Event("CONNECTED", 0, <<>>, w)>>, <<>>)
                   ELSE SfFinally(w, Cur(w), <<>>))

SfExit(w) ==
    /\ w_kind[w] = "sf"
    /\ w_pc[w] = "run"
    /\ ~w_alive[w]
    /\ Step(w, SfFinally(w, Cur(w), <<>>))

(* _receive raises socket.error: the socket is closed, or the peer is gone *)
SfReceiveError(w) ==
    /\ w_kind[w] = "sf"
    /\ w_pc[w] = "run"
    /\ w_alive[w]
    /\ Step(w, SfFinally(w, Cur(w), <<>>))

(* _receive: the length byte, then recv of at most the bytes still due.    *)
(* A socket.timeout changes nothing.                                       *)
Sf_receive(w, n, k) ==
    IF n.recv_length = 0
    THEN Continue([n EXCEPT !.recv_length = Head(n.rx), !.recv_buf = <<>>,
                            !.rx = Tail(n.rx)], <<>>, <<>>)
    ELSE LET buf == n.recv_buf \o SubSeq(n.rx, 1, k)
             m == [n EXCEPT !.recv_buf = buf,
                            !.rx = SubSeq(n.rx, k + 1, Len(n.rx))]
         IN  IF n.recv_length = Len(buf)
             THEN Continue([m EXCEPT !.recv_length = 0],
                           <<Event("INCOMING", 0, buf, w)>>, <<>>)
             ELSE Continue(m, <<>>, <<>>)

SfReceive(w) ==
    /\ w_kind[w] = "sf"
    /\ w_pc[w] = "run"
    /\ w_alive[w]
    /\ w_port[w] = "open"
    /\ rx[w] # <<>>
    /\ \E k \in 1..Len(rx[w]) :
        /\ recv_length[w] = 0 => k = 1
        /\ recv_length[w] # 0 => k <= recv_length[w] - Len(recv_buf[w])
        /\ Step(w, Sf_receive(w, Cur(w), k))

(***************************************************************************)
(* LoopbackConnection.run                                                  *)
(***************************************************************************)
LoopbackRun(w) ==
    /\ w_kind[w] = "loopback"
    /\ w_pc[w] = "start"
    /\ Step(w, Continue([Cur(w) EXCEPT !.pc = "done"],
                        <<Event("CONNECTED", 0, <<>>, w)>>, <<>>))

(***************************************************************************)
(* The transport's send(packet), called by the supervisor thread for       *)
(* MESSAGE_OUTGOING (connection.py:159-161).                               *)
(***************************************************************************)
Kept(w) == [Cur(w) EXCEPT !.written = written[w], !.logged = logged[w]]

SerialConnection_send(w, p) ==
    IF w_connected[w]
    THEN Continue([Kept(w) EXCEPT !.outqueue = Append(@, p)], <<>>, <<>>)
    ELSE Continue(Kept(w), <<>>, <<>>)

(* SfConnection.send with acked set before the test of _connected. *)
SfConnection_send_Acked(w, p, ok) ==
    LET data == Message_serialize(packets[p])
    IN  IF w_connected[w]
        THEN IF ok
             THEN Continue([Kept(w) EXCEPT !.written = <<<<Len(data)>> \o data>>],
                           <<>>, <<<<p, TRUE>>>>)
             ELSE SfDisconnected(w, Kept(w), <<>>, <<<<p, TRUE>>>>)
        ELSE Continue(Kept(w), <<>>, <<<<p, TRUE>>>>)

SfConnection_send(w, p, ok) ==
    LET data == Message_serialize(packets[p])
    IN  IF w_connected[w]
        THEN IF ok
             THEN Continue([Kept(w) EXCEPT !.written = <<<<Len(data)>> \o data>>],
                           <<>>, <<<<p, TRUE>>>>)
             ELSE SfDisconnected(w, Kept(w), <<>>, <<<<p, FALSE>>>>)
        ELSE Continue(Kept(w), <<>>, <<<<p, FALSE>>>>)

LoopbackConnection_send(w, p) ==
    Continue(Kept(w), <<Event("INCOMING", p, <<>>, w)>>, <<>>)

SupFrame ==
    UNCHANGED <<c_connected, c_disconnected, c_alive, sup, real_connection,
                connection_type, connection_info, reconnect_period, elapsed,
                event_cb, dispVars, u_pc, u_target, ret, packets, submitted,
                received, w_kind>>

HandleOutgoing ==
    /\ SupRunning
    /\ HeadIs("OUTGOING")
    /\ LET w == real_connection
           p == Head(queue).pkt
       IN  \E ok \in BOOLEAN :
            /\ w_kind[w] = "serial"
                 => ok /\ (w_connected[w] => Len(outqueue[w]) < MaxOutQueue)
            /\ w_kind[w] = "loopback" => ok
            /\ w_kind[w] = "sf" => (ok => w_port[w] = "open")
            /\ LET r == IF w_kind[w] = "serial"
                        THEN SerialConnection_send(w, p)
                        ELSE IF w_kind[w] = "sf"
                        THEN SfConnection_send(w, p, ok)
                        ELSE LoopbackConnection_send(w, p)
               IN  ApplyQ(w, r.n, Tail(queue), r.evs, r.done)
    /\ SupFrame

(***************************************************************************)
(* The transport's join(), up to Thread.join: what the caller does before  *)
(* it blocks.                                                              *)
(***************************************************************************)
Transport_join(w) ==
    IF w_kind[w] = "serial"
    THEN Continue([Kept(w) EXCEPT !.alive = FALSE,
                                  !.port = IF @ = "none" THEN @ ELSE "closed"],
                  <<>>, <<>>)
    ELSE IF w_kind[w] = "sf"
    THEN Continue([Kept(w) EXCEPT !.alive = FALSE, !.port = "closed"],
                  <<>>, <<>>)
    ELSE Continue(Kept(w), <<Event("DISCONNECTED", 0, <<>>, w)>>, <<>>)

UserFrame ==
    UNCHANGED <<c_connected, c_disconnected, sup, real_connection,
                connection_type, connection_info, elapsed, event_cb, dispVars,
                packets, submitted, received, w_kind>>

(***************************************************************************)
(* User thread: Connection.disconnect, in the steps at which it can block. *)
(***************************************************************************)
Disconnect ==
    /\ u_pc = "idle"
    /\ reconnect_period' = NoneInt
    /\ u_pc' = "disconnect_wait"
    /\ ret' = "pending"
    /\ UNCHANGED <<c_connected, c_disconnected, c_alive, sup, queue,
                   real_connection, connection_type, connection_info, elapsed,
                   event_cb, dispVars, u_target, packets, submitted, cb,
                   received, threadVars, serialVars, ioVars, histVars>>

(* The wait loop ends (not Connecting); _real_connection.join() starts. *)
DisconnectJoin ==
    /\ u_pc = "disconnect_wait"
    /\ c_connected \/ c_disconnected
    /\ IF real_connection # NoneInt
       THEN LET r == Transport_join(real_connection)
            IN  /\ Apply(real_connection, r.n, r.evs, r.done)
                /\ u_target' = real_connection
                /\ u_pc' = "disconnect_join"
       ELSE /\ u_pc' = "disconnect_final"
            /\ UNCHANGED <<u_target, queue, cb, w_pc, w_alive, w_connected,
                           w_port, serialVars, ioVars, histVars>>
    /\ UNCHANGED <<reconnect_period, c_alive, ret>>
    /\ UserFrame

(* Thread.join returns: the worker thread has ended. *)
DisconnectJoined ==
    /\ u_pc = "disconnect_join"
    /\ w_pc[u_target] = "done"
    /\ u_pc' = "disconnect_final"
    /\ UNCHANGED <<supVars, dispVars, u_target, ret, packets, submitted, cb,
                   received, threadVars, serialVars, ioVars, histVars>>

(* self._disconnected.wait() returns. *)
DisconnectDone ==
    /\ u_pc = "disconnect_final"
    /\ c_disconnected
    /\ u_pc' = "idle"
    /\ ret' = "ok"
    /\ UNCHANGED <<supVars, dispVars, u_target, packets, submitted, cb,
                   received, threadVars, serialVars, ioVars, histVars>>

(***************************************************************************)
(* User thread: Connection.join                                            *)
(***************************************************************************)
Join ==
    /\ u_pc = "idle"
    /\ c_alive' = FALSE
    /\ ret' = "pending"
    /\ IF real_connection # NoneInt
       THEN LET r == Transport_join(real_connection)
            IN  /\ Apply(real_connection, r.n, r.evs, r.done)
                /\ u_target' = real_connection
                /\ u_pc' = "join_transport"
       ELSE /\ u_pc' = "join_thread"
            /\ UNCHANGED <<u_target, queue, cb, w_pc, w_alive, w_connected,
                           w_port, serialVars, ioVars, histVars>>
    /\ UNCHANGED reconnect_period
    /\ UserFrame

JoinedTransport ==
    /\ u_pc = "join_transport"
    /\ w_pc[u_target] = "done"
    /\ u_pc' = "join_thread"
    /\ UNCHANGED <<supVars, dispVars, u_target, ret, packets, submitted, cb,
                   received, threadVars, serialVars, ioVars, histVars>>

JoinedThread ==
    /\ u_pc = "join_thread"
    /\ sup # "running"
    /\ u_pc' = "idle"
    /\ ret' = "ok"
    /\ UNCHANGED <<supVars, dispVars, u_target, packets, submitted, cb,
                   received, threadVars, serialVars, ioVars, histVars>>

(***************************************************************************)
(* The peer at the other end of a running transport sends one frame.       *)
(***************************************************************************)
PeerSend(w, frame, max) ==
    /\ w_pc[w] = "run"
    /\ w_port[w] = "open"
    /\ rx[w] = <<>>
    /\ peer_sent < max
    /\ peer_sent' = peer_sent + 1
    /\ rx' = [rx EXCEPT ![w] = frame]
    /\ UNCHANGED <<supVars, dispVars, userVars, threadVars, serialVars,
                   recv_buf, recv_length, written, logged, histVars>>

(* The peer writes a frame as soon as the previous one has been read, any  *)
(* number of times: read() then never times out (lines 205-206).           *)
PeerStream(w, frame) ==
    /\ w_pc[w] = "run"
    /\ w_port[w] = "open"
    /\ rx[w] = <<>>
    /\ rx' = [rx EXCEPT ![w] = frame]
    /\ UNCHANGED <<supVars, dispVars, userVars, threadVars, serialVars,
                   recv_buf, recv_length, written, logged, peer_sent,
                   histVars>>

(* A well-formed serial frame as the mote writes it: the frame data with   *)
(* 0x7E and 0x7D escaped, between two delimiters.                          *)
RECURSIVE Escaped(_)
Escaped(data) ==
    IF data = <<>> THEN <<>>
    ELSE (IF Head(data) = HDLC_FRAMING_BYTE \/ Head(data) = HDLC_ESCAPE_BYTE
          THEN <<HDLC_ESCAPE_BYTE, Xor(Head(data), HDLC_XOR_BYTE)>>
          ELSE <<Head(data)>>) \o Escaped(Tail(data))

PeerFrame(seq, packet) ==
    <<HDLC_FRAMING_BYTE>> \o Escaped(FrameData(seq, packet))
        \o <<HDLC_FRAMING_BYTE>>

(***************************************************************************)
(* Inputs.  A connection string is modelled by its parsed parts: the       *)
(* scheme before "@" and, for serial, the token after "*".                 *)
(***************************************************************************)
ConnectArgs ==
    { <<"sf", "", 0, "callable">>,
      <<"loopback", "", NoneInt, None>>,
      <<"udp", "", NoneInt, None>> }

ReconnectArgs ==
    { <<"sf", "", MaxPeriod, None>>,
      <<"sf", "", NoneInt, None>> }

SerialConnectArgs ==
    { <<"serial", "", NoneInt, None>>,
      <<"serial", "NOACK", NoneInt, "callable">>,
      <<"udp", "", NoneInt, None>> }

(* The PACKET frames the serial peer sends, as (seq, body): one for the    *)
(* registered dispatch byte, one whose seq is the framing byte.  Besides   *)
(* them it sends the ACKs of seq 0 and 1 and one NO_ACK_PACKET.            *)
PacketFrames == { <<0, <<0, 1>>>>, <<HDLC_FRAMING_BYTE, <<0>>>> }

SerialFrames ==
    {PeerFrame(f[1], f[2]) : f \in PacketFrames}
        \cup { PeerFrame(0, NoneBytes),
               PeerFrame(1, NoneBytes),
               PeerFrame(NoneInt, <<0>>) }

SfFrames == {<<1, 0>>}

ConnectWith(args) == \E a \in args : Connect(a[1], a[2], a[3], a[4])

Disconnecting ==
    \/ Disconnect
    \/ DisconnectJoin
    \/ DisconnectJoined
    \/ DisconnectDone

Joining ==
    \/ Join
    \/ JoinedTransport
    \/ JoinedThread
    \/ SupExit

Supervisor ==
    \/ HandleIncoming
    \/ HandleOutgoing
    \/ HandleConnected
    \/ HandleDisconnected
    \/ HandleStartConnect
    \/ QueueEmpty

Serial(w) ==
    \/ SerialOpen(w)
    \/ SerialExit(w)
    \/ SerialReadError(w)
    \/ SerialRx(w)
    \/ SerialIdle(w)
    \/ AckTimeout(w)
    \/ \E f \in SerialFrames : PeerSend(w, f, MaxFrames)

Sf(w) ==
    \/ SfConnect(w)
    \/ SfExit(w)
    \/ SfReceiveError(w)
    \/ SfReceive(w)
    \/ \E f \in SfFrames : PeerSend(w, f, MaxSfFrames)

(***************************************************************************)
(* Spec: the supervisor over the SF and loopback transports, with          *)
(* automatic reconnect; one dispatcher and one packet.                     *)
(***************************************************************************)
Next ==
    \/ ConnectWith(ConnectArgs)
    \/ Send(1)
    \/ RegisterDispatcher(1)
    \/ RemoveDispatcher(DefaultDispatch)
    \/ Disconnecting
    \/ Joining
    \/ Supervisor
    \/ \E w \in Workers : Sf(w) \/ LoopbackRun(w)

Spec == Init /\ [][Next]_vars

(***************************************************************************)
(* SpecSerial: the supervisor over one serial session.  The user connects  *)
(* once, without reconnect, and sends every packet.                        *)
(***************************************************************************)
FirstConnect ==
    /\ real_connection = NoneInt
    /\ ConnectWith(SerialConnectArgs)

NextSerial ==
    \/ FirstConnect
    \/ \E p \in Packets : Send(p)
    \/ RegisterDispatcher(1)
    \/ Disconnecting
    \/ Supervisor
    \/ Serial(1)

SpecSerial == Init /\ [][NextSerial]_vars

(***************************************************************************)
(* SpecDispatch: the dispatcher table of the connection and the handler    *)
(* tables of MessageDispatcher 1, with data handed to Connection._receive. *)
(* The data are serialized messages to this address, to address 0, to the  *)
(* broadcast address and to another mote, data that do not deserialize,    *)
(* data for a dispatch byte without a table entry, and no data.            *)
(***************************************************************************)
RxMessages ==
    [dispatch : {DefaultDispatch},
     destination : {DefaultAddress, 0, AM_BROADCAST_ADDR, 2},
     source : {2},
     group : {DefaultGroup},
     type : PacketTypes,
     payload : {<<>>, <<HDLC_FRAMING_BYTE>>},
     footer : {<<>>, <<255>>}]

DispatchData ==
    {Message_serialize(m) : m \in RxMessages}
        \cup { <<>>,
               <<DefaultDispatch, 0, 1, 0, 2>>,
               <<DefaultDispatch, 0, 1, 0, 2, 1, DefaultGroup, 0>> }

MessageDispatching ==
    \/ \E t \in PacketTypes, h \in Handlers \cup {None} :
            register_receiver(1, t, h)
    \/ \E t \in PacketTypes, h \in Handlers : deregister_receiver(1, t, h)
    \/ \E h \in Handlers : register_default_receiver(1, h)
    \/ deregister_default_receiver(1)
    \/ \E t \in PacketTypes, h \in Handlers \cup {None} :
            register_snooper(1, t, h)
    \/ \E h \in Handlers : register_default_snooper(1, h)
    \/ deregister_default_snooper(1)

NextDispatch ==
    \/ \E d \in Dispatchers : RegisterDispatcher(d)
    \/ RemoveDispatcher(DefaultDispatch)
    \/ MessageDispatching
    \/ \E data \in DispatchData : Connection_receive(data)

SpecDispatch == Init /\ [][NextDispatch]_vars

(***************************************************************************)
(* SpecIncoming: a fresh serial session that receives one frame and sends  *)
(* nothing.  The frames are those of test_serial.py with the dispatch byte *)
(* of the registered dispatcher (payloads 7E 7E 7E and 7D 7E), the third   *)
(* frame of the test as it is (dispatch byte 0x0E, for which the table has *)
(* no entry), and a NO_ACK_PACKET frame without a body.                    *)
(***************************************************************************)
TestVector ==
    <<HDLC_FRAMING_BYTE, SERIAL_PROTOCOL_PACKET, 0, 14, HDLC_ESCAPE_BYTE, 94,
      HDLC_ESCAPE_BYTE, 94, HDLC_ESCAPE_BYTE, 94, 237, 185,
      HDLC_FRAMING_BYTE>>

TestBody == <<14, HDLC_FRAMING_BYTE, HDLC_FRAMING_BYTE, HDLC_FRAMING_BYTE>>

IncomingFrames ==
    { <<0, <<DefaultDispatch, HDLC_FRAMING_BYTE, HDLC_FRAMING_BYTE,
             HDLC_FRAMING_BYTE>>>>,
      <<0, <<DefaultDispatch, HDLC_ESCAPE_BYTE, HDLC_FRAMING_BYTE>>>>,
      <<0, TestBody>>,
      <<NoneInt, <<>>>> }

NextIncoming ==
    \/ FirstConnect
    \/ RegisterDispatcher(1)
    \/ HandleStartConnect
    \/ HandleConnected
    \/ HandleIncoming
    \/ HandleDisconnected
    \/ QueueEmpty
    \/ SerialOpen(1)
    \/ SerialReadError(1)
    \/ SerialRx(1)
    \/ SerialIdle(1)
    \/ \E f \in IncomingFrames : PeerSend(1, PeerFrame(f[1], f[2]), 1)

SpecIncoming == Init /\ [][NextIncoming]_vars

(***************************************************************************)
(* SpecFrames: a serial session that receives up to MaxFrames frames, well *)
(* formed or not, and sends nothing: a valid PACKET, the same with a wrong *)
(* CRC, a frame with the unknown tag 0x46, an ACK without seq, a PACKET    *)
(* without body, a frame of one byte, NO_ACK_PACKET frames with and        *)
(* without body, and a valid PACKET followed by 0x7D before the closing    *)
(* delimiter.                                                              *)
(***************************************************************************)
WithCrc(body) ==
    LET crc == itut_g16_crc(body)
    IN  body \o <<crc % 256, crc \div 256>>

Framed(datavalue) ==
    <<HDLC_FRAMING_BYTE>> \o Escaped(datavalue) \o <<HDLC_FRAMING_BYTE>>

Corrupted(datavalue) ==
    [datavalue EXCEPT ![Len(datavalue)] = Xor(@, 1)]

GoodPacketFrame == PeerFrame(0, <<DefaultDispatch, 1>>)

BadCrcFrame == Framed(Corrupted(FrameData(0, <<DefaultDispatch, 1>>)))

UnknownTagFrame == Framed(WithCrc(<<70, 0, DefaultDispatch>>))

ShortAckFrame == Framed(WithCrc(<<SERIAL_PROTOCOL_ACK>>))

ShortPacketFrame == Framed(WithCrc(<<SERIAL_PROTOCOL_PACKET, 0>>))

TinyFrame == Framed(<<SERIAL_PROTOCOL_PACKET>>)

NoAckFrame == PeerFrame(NoneInt, <<DefaultDispatch, 1>>)

EmptyNoAckFrame == PeerFrame(NoneInt, <<>>)

DanglingEscapeFrame ==
    <<HDLC_FRAMING_BYTE>> \o Escaped(FrameData(1, <<DefaultDispatch, 1>>))
        \o <<HDLC_ESCAPE_BYTE, HDLC_FRAMING_BYTE>>

RawFrames ==
    { GoodPacketFrame, BadCrcFrame, UnknownTagFrame, ShortAckFrame,
      ShortPacketFrame, TinyFrame, NoAckFrame, EmptyNoAckFrame,
      DanglingEscapeFrame }

NextFrames ==
    \/ FirstConnect
    \/ RegisterDispatcher(1)
    \/ HandleStartConnect
    \/ HandleConnected
    \/ HandleIncoming
    \/ HandleDisconnected
    \/ QueueEmpty
    \/ SerialOpen(1)
    \/ SerialReadError(1)
    \/ SerialRx(1)
    \/ SerialIdle(1)
    \/ \E f \in RawFrames : PeerSend(1, f, MaxFrames)

SpecFrames == Init /\ [][NextFrames]_vars

(***************************************************************************)
(* SpecFlags: the _connected and _disconnected flags as other threads see  *)
(* them.  The user thread calls connect() at any time, to an SF server,   *)
(* with a reconnect period of 0 seconds or without reconnect; the          *)
(* supervisor handles EVENT_CONNECTED and EVENT_DISCONNECTED one statement *)
(* at a time.                                                              *)
(***************************************************************************)
FlagArgs ==
    { <<"sf", "", 0, None>>,
      <<"sf", "", NoneInt, None>> }

NextFlags ==
    \/ ConnectWith(FlagArgs)
    \/ HandleStartConnect
    \/ ConnectedSet
    \/ DisconnectedClear
    \/ ConnectedClear
    \/ DisconnectedSet
    \/ QueueEmpty
    \/ \E w \in Workers :
        \/ SfConnect(w)
        \/ SfReceive(w)
        \/ SfReceiveError(w)
        \/ \E f \in SfFrames : PeerSend(w, f, MaxSfFrames)

SpecFlags == Init /\ [][NextFlags]_vars

(***************************************************************************)
(* SpecTable: the dispatcher table under the user thread, which registers  *)
(* and removes dispatchers at any time, and the supervisor thread, which   *)
(* reads the table twice for every MESSAGE_INCOMING of an SF session.      *)
(***************************************************************************)
FirstSfConnect ==
    /\ real_connection = NoneInt
    /\ ConnectWith(FlagArgs)

NextTable ==
    \/ FirstSfConnect
    \/ \E d \in Dispatchers : RegisterDispatcher(d)
    \/ RemoveDispatcher(DefaultDispatch)
    \/ HandleStartConnect
    \/ HandleConnected
    \/ HandleDisconnected
    \/ ReceiveCheck
    \/ ReceiveLookup
    \/ QueueEmpty
    \/ \E w \in Workers :
        \/ SfConnect(w)
        \/ SfReceive(w)
        \/ SfReceiveError(w)
        \/ \E f \in SfFrames : PeerSend(w, f, MaxSfFrames)

SpecTable == Init /\ [][NextTable]_vars

(***************************************************************************)
(* SpecDisconnect: connect() with automatic reconnect to an SF server that *)
(* accepts or refuses, and disconnect() called by the user at any time.    *)
(* connect() is called only when it is accepted (not Busy).                *)
(***************************************************************************)
AutoReconnectArgs ==
    { <<"sf", "", 0, None>>,
      <<"sf", "", MaxPeriod, None>> }

ConnectWhenIdle ==
    /\ ~c_connected
    /\ c_disconnected
    /\ ConnectWith(AutoReconnectArgs)

NextDisconnect ==
    \/ ConnectWhenIdle
    \/ Disconnect
    \/ DisconnectJoin
    \/ DisconnectJoined
    \/ DisconnectDone
    \/ HandleStartConnect
    \/ HandleConnected
    \/ HandleDisconnected
    \/ QueueEmpty
    \/ \E w \in Workers :
        \/ SfConnect(w)
        \/ SfExit(w)
        \/ SfReceiveError(w)

SpecDisconnect == Init /\ [][NextDisconnect]_vars

(***************************************************************************)
(* SpecStream: one serial session, with or without ACKs, one packet sent   *)
(* by the user, and a peer that writes ACK frames without end.  The        *)
(* supervisor thread and the worker thread keep running (every loop        *)
(* iteration of run() ends: read() returns a byte or times out), and the   *)
(* ACK timeout passes.                                                     *)
(***************************************************************************)
StreamConnectArgs ==
    { <<"serial", "", NoneInt, None>>,
      <<"serial", "NOACK", NoneInt, None>> }

StreamFrames == {PeerFrame(0, NoneBytes), PeerFrame(1, NoneBytes)}

StreamConnect ==
    /\ real_connection = NoneInt
    /\ ConnectWith(StreamConnectArgs)

StreamSupervisor ==
    \/ HandleOutgoing
    \/ HandleConnected
    \/ HandleDisconnected
    \/ HandleStartConnect
    \/ QueueEmpty

SerialLoop(w) ==
    \/ SerialRx(w)
    \/ SerialIdle(w)

NextStream ==
    \/ StreamConnect
    \/ RegisterDispatcher(1)
    \/ Send(1)
    \/ StreamSupervisor
    \/ SerialOpen(1)
    \/ SerialReadError(1)
    \/ SerialLoop(1)
    \/ AckTimeout(1)
    \/ \E f \in StreamFrames : PeerStream(1, f)

(* The worker is in its loop: its next iteration can be taken. *)
LoopReady ==
    /\ w_kind[1] = "serial"
    /\ w_pc[1] = "run"
    /\ w_alive[1]
    /\ w_port[1] = "open"

(* The last conjunct is the fairness of the worker's loop, written with    *)
(* LoopReady for the enabling condition: a worker that stays in its loop   *)
(* takes loop iterations again and again.                                  *)
SpecStream ==
    /\ Init
    /\ [][NextStream]_vars
    /\ WF_vars(StreamSupervisor)
    /\ WF_vars(SerialOpen(1))
    /\ WF_vars(AckTimeout(1))
    /\ []<>(~LoopReady) \/ []<><<SerialLoop(1)>>_vars

(***************************************************************************)
(* SpecReconnect: one connect() to an SF server, with a reconnect period   *)
(* of MaxPeriod seconds or without reconnect, and no disconnect().  The    *)
(* supervisor thread and the worker threads are scheduled fairly: each     *)
(* takes the steps it can take.  The peer and the user are not.            *)
(***************************************************************************)
NextReconnect ==
    \/ real_connection = NoneInt /\ ConnectWith(ReconnectArgs)
    \/ RegisterDispatcher(1)
    \/ Send(1)
    \/ Supervisor
    \/ \E w \in Workers :
        \/ SfConnect(w)
        \/ SfReceive(w)
        \/ SfReceiveError(w)
        \/ \E f \in SfFrames : PeerSend(w, f, MaxSfFrames)

SpecReconnect ==
    /\ Init
    /\ [][NextReconnect]_vars
    /\ WF_vars(Supervisor)
    /\ \A w \in Workers : WF_vars(SfConnect(w) \/ SfReceive(w))

(***************************************************************************)
(* Claims.                                                                 *)
(***************************************************************************)
Alive(w) == w_pc[w] = "start" \/ w_pc[w] = "run"

Connecting == \E w \in Workers : w_pc[w] = "start"

(* C1: for every transport session EVENT_DISCONNECTED is put on the        *)
(* supervisor queue at most once, and once it has been put no further      *)
(* event of that transport is enqueued.                                    *)
C1_DisconnectedOnce ==
    \A w \in Workers : n_disconnected[w] <= 1 /\ ~after_disc[w]

(* C2: in every reachable state at most one transport worker is alive.     *)
C2_OneWorkerAlive == Cardinality({w \in Workers : Alive(w)}) <= 1

(* C3: a connect() made while a transport is connected or a connection     *)
(* attempt is in progress fails with ConnectionBusyException and changes   *)
(* none of the supervisor's state.                                         *)
C3_ConnectBusy ==
    [][(ConnectWith(ConnectArgs) /\ (c_connected \/ Connecting))
          => (ret' = "ConnectionBusyException" /\ UNCHANGED supVars)]_vars

(* Everything but the result of the user's call. *)
callerVars == <<supVars, dispVars, u_pc, u_target, packets, submitted, cb,
                received, threadVars, serialVars, ioVars, histVars>>

UnknownScheme ==
    \E a \in ConnectArgs :
        a[1] \notin connection_types /\ Connect(a[1], a[2], a[3], a[4])

(* C4: connect() with a scheme outside connection_types and send() of a    *)
(* packet whose dispatch byte has no dispatcher raise in the caller        *)
(* (ConnectionException when the supervisor is Idle, DispatcherError) and  *)
(* change nothing else: no event, no transport, the flags as they were.    *)
C4_SyncFailure ==
    [][/\ UnknownScheme =>
            /\ ret' \in {"ConnectionException", "ConnectionBusyException"}
            /\ (~c_connected /\ c_disconnected) => ret' = "ConnectionException"
            /\ UNCHANGED callerVars
       /\ (Send(1) /\ dispatchers[packets[1].dispatch] = 0) =>
            /\ ret' = "DispatcherError"
            /\ UNCHANGED callerVars]_vars

C4_Witness ==
    /\ ret = "ConnectionException"
    /\ ~c_connected /\ c_disconnected
    /\ queue = <<>>
    /\ \A w \in Workers : w_kind[w] = "none"
    /\ dispatchers[packets[1].dispatch] # 0

(* C5: once the serial transport has ended and the supervisor queue is     *)
(* empty, every packet accepted by Connection.send has had its completion  *)
(* callback.                                                               *)
C5_CallbackEventually ==
    (w_pc[1] = "done" /\ queue = <<>>) => \A p \in submitted : cb[p] # <<>>

(***************************************************************************)
(* Claims on the serial session (worker 1 of SpecSerial).                  *)
(***************************************************************************)
IsDataFrame(f) ==
    /\ Len(f) > 1
    /\ f[2] \in {SERIAL_PROTOCOL_PACKET, SERIAL_PROTOCOL_NO_ACK_PACKET}

(* The frame of packet p as the mote expects it. *)
DataFrameOf(w, p) == PeerFrame(seq_out[w], Message_serialize(packets[p]))

Taken == Len(outqueue'[1]) < Len(outqueue[1])

(* C6: a packet is taken from the outbound queue only when the slot is     *)
(* empty, it is the head of the queue and goes to the slot; a data frame   *)
(* written while the slot is occupied is the frame of the slot's packet,   *)
(* one written as a packet is taken is the frame of that packet.           *)
C6_StopAndWait ==
    [][/\ Taken =>
            /\ outgoing[1] = 0
            /\ outqueue'[1] = Tail(outqueue[1])
            /\ outgoing'[1] \in {0, Head(outqueue[1])}
            /\ \A i \in 1..Len(written'[1]) :
                 IsDataFrame(written'[1][i]) =>
                     written'[1][i] = DataFrameOf(1, Head(outqueue[1]))
       /\ outgoing[1] # 0 =>
            /\ outgoing'[1] \in {0, outgoing[1]}
            /\ \A i \in 1..Len(written'[1]) :
                 IsDataFrame(written'[1][i]) =>
                     written'[1][i] = DataFrameOf(1, outgoing[1])]_vars

C6_Witness ==
    /\ outgoing[1] # 0
    /\ outqueue[1] # <<>>
    /\ written[1] = <<DataFrameOf(1, outgoing[1])>>

LeavesSlot == outgoing[1] # 0 /\ outgoing'[1] = 0

(* C7: in every step of a serial transport _seq_out becomes                *)
(* (_seq_out + 1) % 256 when it is not None and a packet leaves the slot,  *)
(* and keeps its value otherwise; None stays None.                         *)
C7_SeqOutAdvance ==
    [][w_kind[1] = "serial" =>
          seq_out'[1] = IF seq_out[1] # NoneInt /\ LeavesSlot
                        THEN (seq_out[1] + 1) % 256
                        ELSE seq_out[1]]_vars

C7_Witness ==
    /\ seq_out[1] = 1
    /\ outgoing[1] = 0
    /\ cb[1] = <<TRUE>>

(* The rest of a well-formed PACKET frame f = (seq, body) is in the port's *)
(* input, after the opening delimiter; the step reads it.                  *)
PacketTail ==
    [f \in PacketFrames |->
        Escaped(FrameData(f[1], f[2])) \o <<HDLC_FRAMING_BYTE>>]

PacketPending(f) ==
    /\ w_pc[1] = "run"
    /\ recv_buf[1] = <<>>
    /\ ~escape[1]
    /\ rx[1] = PacketTail[f]

PacketRead(f) == PacketPending(f) /\ rx'[1] = <<>>

Incomings(q) == {i \in 1..Len(q) : q[i].type = "INCOMING"}

(* C8: reading a valid PACKET frame enqueues no MESSAGE_INCOMING when its  *)
(* seq equals _seq_in, and exactly one, with the frame's body, otherwise   *)
(* (always for the first PACKET of the session, when _seq_in is None);     *)
(* _seq_in is then the frame's seq.                                        *)
C8_DuplicateSuppressed ==
    [][\A f \in PacketFrames :
         PacketRead(f) =>
            /\ seq_in'[1] = f[1]
            /\ IF f[1] = seq_in[1]
               THEN Incomings(queue') = Incomings(queue)
               ELSE /\ Incomings(queue') = Incomings(queue) \cup {Len(queue) + 1}
                    /\ queue'[Len(queue) + 1] = Event("INCOMING", 0, f[2], 1)]_vars

C8_Witness ==
    /\ logged[1] = "duplicate"
    /\ seq_in[1] = 0
    /\ written[1] = <<PeerFrame(0, NoneBytes)>>

(* C9: reading a valid PACKET frame writes exactly one ACK frame of the    *)
(* same seq in the same step, unless the port fails (SerialException).     *)
C9_AckEveryPacket ==
    [][\A f \in PacketFrames :
         PacketRead(f) =>
            \/ written'[1] = <<PeerFrame(f[1], NoneBytes)>>
            \/ logged'[1] = "serial.error"]_vars

(* C10: with _seq_out None, a step that takes a packet and leaves the      *)
(* transport running has written the packet once as a NO_ACK_PACKET frame, *)
(* called its callback with True and left the slot empty.                  *)
C10_NoAckCallbackTrue ==
    [][(seq_out[1] = NoneInt /\ Taken /\ w_pc'[1] = "run") =>
          /\ written'[1] = <<DataFrameOf(1, Head(outqueue[1]))>>
          /\ cb' = [cb EXCEPT ![Head(outqueue[1])] = Append(@, TRUE)]
          /\ outgoing'[1] = 0]_vars

(* The transmissions of the slot's packet so far: tries starts at          *)
(* SERIAL_SEND_TRIES when the packet is taken and is decremented after     *)
(* every write.                                                            *)
Transmissions(w) == SERIAL_SEND_TRIES - tries[w]

Abandoned ==
    /\ seq_out[1] # NoneInt
    /\ LeavesSlot
    /\ cb'[outgoing[1]] = Append(cb[outgoing[1]], FALSE)

(* C11: with ACKs enabled a packet that is abandoned (callback False, slot *)
(* cleared, _seq_out advanced) has been transmitted twice: once, and once  *)
(* again after the first ACK deadline.                                     *)
C11_RetransmitOnce ==
    [][Abandoned =>
          /\ Transmissions(1) = 2
          /\ seq_out'[1] = (seq_out[1] + 1) % 256]_vars

(* C12: no transport enqueues MESSAGE_INCOMING before the EVENT_CONNECTED  *)
(* of its session.                                                         *)
C12_ConnectedFirst == \A w \in Workers : ~unannounced[w]

Returns(from) == u_pc = from /\ u_pc' = "idle"

(* C13: when disconnect() returns with the supervisor thread running, the  *)
(* reconnect period is None, no transport worker is alive and the flags    *)
(* read disconnected and not connected.                                    *)
C13_DisconnectReturns ==
    [][(Returns("disconnect_final") /\ sup = "running") =>
          /\ reconnect_period' = NoneInt
          /\ \A w \in Workers : ~Alive(w)
          /\ c_disconnected' /\ ~c_connected']_vars

StartConnects(q) == {i \in 1..Len(q) : q[i].type = "START_CONNECT"}

Reconnecting ==
    /\ c_disconnected
    /\ reconnect_period # NoneInt
    /\ reconnect_period >= 0

SessionEnded ==
    /\ Reconnecting
    /\ real_connection # NoneInt
    /\ \A w \in Workers : w_pc[w] \notin {"start", "run"}

(* C14: once a session has ended and the flags read disconnected with a    *)
(* reconnect period >= 0, a START_CONNECT is eventually on the queue; the  *)
(* supervisor enqueues one only then and only when the time since          *)
(* _last_connect exceeds the period; connect() is the only other source,   *)
(* so with reconnect None no other START_CONNECT is enqueued.              *)
C14_Reconnect ==
    /\ [][Cardinality(StartConnects(queue')) >
              Cardinality(StartConnects(queue)) =>
            \/ ConnectWith(ReconnectArgs)
            \/ /\ Reconnecting
               /\ elapsed' > reconnect_period
               /\ queue = <<>>
               /\ queue' = <<Event("START_CONNECT", 0, <<>>, 0)>>]_vars
    /\ SessionEnded ~> (StartConnects(queue) # {})

C14_Witness ==
    /\ queue = <<Event("START_CONNECT", 0, <<>>, 0)>>
    /\ reconnect_period = MaxPeriod
    /\ elapsed = MaxPeriod + 1
    /\ n_disconnected[1] = 1
    /\ w_pc[1] = "done"

Addressed(m) == m.destination \in {DefaultAddress, 0, AM_BROADCAST_ADDR}

Delivery(handler, m, via) ==
    <<[receiver |-> handler, message |-> m, via |-> via]>>

Routed(d, m) ==
    IF Addressed(m)
    THEN IF Lookup(receivers[d], m.type) # Absent
         THEN Delivery(receivers[d][m.type], m, "receivers")
         ELSE IF default_receiver[d] # None
         THEN Delivery(default_receiver[d], m, "default_receiver")
         ELSE <<>>
    ELSE IF Lookup(snoopers[d], m.type) # Absent
         THEN Delivery(snoopers[d][m.type], m, "snoopers")
         ELSE IF default_snooper[d] # None
         THEN Delivery(default_snooper[d], m, "default_snooper")
         ELSE <<>>

(* C15: a receive hands the message to at most one handler: for a          *)
(* destination that is the dispatcher's address, 0 or 0xFFFF, to           *)
(* receivers[type], else to the default receiver, else to nobody, and      *)
(* never to a snooper; for any other destination, to snoopers[type], else  *)
(* to the default snooper, else to nobody, and never to a receiver.        *)
C15_OneHandler ==
    [][\A data \in DispatchData :
        (Connection_receive(data) /\ Dispatched(data) # 0
            /\ Message_deserialize(data).exc = None) =>
          LET m == Message_deserialize(data).message
          IN  /\ Len(delivered') <= 1
              /\ delivered' = Routed(Dispatched(data), m)
              /\ \A i \in 1..Len(delivered') :
                    delivered'[i].via \in
                        IF Addressed(m)
                        THEN {"receivers", "default_receiver"}
                        ELSE {"snoopers", "default_snooper"}]_vars

C15_Witness ==
    /\ Len(delivered) = 1
    /\ delivered[1].via = "default_receiver"
    /\ delivered[1].receiver = "callable"
    /\ delivered[1].message.destination = AM_BROADCAST_ADDR
    /\ snoopers[1][delivered[1].message.type] = "callable"
    /\ default_snooper[1] = "callable"
    /\ receivers[1][delivered[1].message.type] = Absent

(* C16: after register_receiver(t, None) or register_snooper(t, None),     *)
(* whether or not t was registered, the table has no entry for t.          *)
C16_NoneRemoves ==
    [][\A t \in PacketTypes :
        /\ register_receiver(1, t, None) => receivers'[1][t] = Absent
        /\ register_snooper(1, t, None) => snoopers'[1][t] = Absent]_vars


InTable(d) == \E b \in DOMAIN dispatchers : dispatchers[b] = d

(* C17: whatever the sequence of register_dispatcher and remove_dispatcher *)
(* calls, the table maps a dispatch byte only to a dispatcher of that      *)
(* dispatch byte, the one registered last; every dispatcher in the table   *)
(* has its sender attached, and every dispatcher that is not in the table  *)
(* (never registered, replaced or removed) has none.                       *)
C17_DispatcherTable ==
    /\ [](\A b \in DOMAIN dispatchers :
            dispatchers[b] # 0 =>
                /\ DispatchOf(dispatchers[b]) = b
                /\ d_sender[dispatchers[b]])
    /\ [](\A d \in Dispatchers : ~InTable(d) => ~d_sender[d])
    /\ [][\A d \in Dispatchers :
            RegisterDispatcher(d) => dispatchers'[DispatchOf(d)] = d]_vars
    /\ [][RemoveDispatcher(DefaultDispatch) =>
            dispatchers'[DefaultDispatch] = 0]_vars

C17_Witness ==
    /\ dispatchers[DefaultDispatch] = 2
    /\ d_sender[2]
    /\ ~d_sender[1]
    /\ Len(delivered) = 1

(* C18: for every message m with all header fields set, deserializing the  *)
(* serialized m gives m back field by field, and the length byte of the    *)
(* serialized form is the length of the payload; so the message a handler  *)
(* is given is the message that was serialized.                            *)
C18_RoundTrip ==
    /\ [](\A m \in RxMessages :
            /\ Message_deserialize(Message_serialize(m)) = Deserialized(m)
            /\ Message_serialize(m)[6] = Len(m.payload))
    /\ [][\A m \in RxMessages :
            (Connection_receive(Message_serialize(m)) /\ delivered' # <<>>)
                => delivered'[1].message = m]_vars

C18_Witness ==
    /\ Len(delivered) = 1
    /\ delivered[1].message \in RxMessages
    /\ delivered[1].message.payload = <<HDLC_FRAMING_BYTE>>
    /\ delivered[1].message.footer = <<255>>
    /\ delivered[1].message.destination = AM_BROADCAST_ADDR
    /\ received = <<Message_serialize(delivered[1].message)>>

(* The frames the read loop of run() hands to _process_incoming_packet     *)
(* when it reads the given bytes, starting from buf and escape.            *)
RECURSIVE StreamDecode(_, _, _)
StreamDecode(bytes, buf, esc) ==
    IF bytes = <<>> \/ Len(buf) < 0
    THEN <<>>
    ELSE LET data == Head(bytes)
         IN  IF data = HDLC_FRAMING_BYTE
             THEN (IF Len(buf) > 0 THEN <<buf>> ELSE <<>>)
                      \o StreamDecode(Tail(bytes), <<>>, esc)
             ELSE IF data = HDLC_ESCAPE_BYTE
             THEN StreamDecode(Tail(bytes), buf, TRUE)
             ELSE IF esc
             THEN StreamDecode(Tail(bytes),
                               Append(buf, Xor(data, HDLC_XOR_BYTE)), FALSE)
             ELSE StreamDecode(Tail(bytes), Append(buf, data), FALSE)

(* C19: the frame the encoder builds for a packet taken from the outbound  *)
(* queue, whatever bytes the packet holds, is decoded by the read loop     *)
(* into exactly one frame, whose CRC verifies and whose body is the        *)
(* serialized packet.                                                      *)
C19_FrameRoundTrip ==
    [][Taken =>
        LET B == Message_serialize(packets[Head(outqueue[1])])
            wr == _write(seq_out[1], B)
            frames == StreamDecode(wr.bytes, <<>>, FALSE)
        IN  /\ wr.exc = None
            /\ Len(frames) = 1
            /\ _process_incoming_packet(frames[1])
                   = Returned(seq_out[1], B)]_vars

IncomingTail ==
    [f \in IncomingFrames |->
        Escaped(FrameData(f[1], f[2])) \o <<HDLC_FRAMING_BYTE>>]

FrameRead(f) ==
    /\ w_pc[1] = "run"
    /\ recv_buf[1] = <<>>
    /\ ~escape[1]
    /\ rx[1] = IncomingTail[f]
    /\ rx'[1] = <<>>

NewIncomings ==
    LET added == SubSeq(queue', Len(queue) + 1, Len(queue'))
    IN  SelectSeq(added, LAMBDA e : e.type = "INCOMING")

RECURSIVE Field_of(_, _)
Field_of(q, type) ==
    IF q = <<>> \/ Len(q) < 0
    THEN <<>>
    ELSE (IF Head(q).type = type
          THEN <<IF type = "OUTGOING" THEN Head(q).pkt ELSE Head(q).data>>
          ELSE <<>>) \o Field_of(Tail(q), type)

Outbound ==
    (IF outgoing[1] # 0 THEN <<outgoing[1]>> ELSE <<>>)
        \o outqueue[1] \o Field_of(queue, "OUTGOING")

Inbound == Field_of(queue, "INCOMING")

Has(s, x) == \E i \in 1..Len(s) : s[i] = x

Pos(s, x) == CHOOSE i \in 1..Len(s) : s[i] = x

(* t keeps the order of s: what both hold is in the same order, and what   *)
(* only t holds comes after everything they share.                         *)
KeepsOrder(s, t) ==
    \A i, j \in 1..Len(t) :
        i < j =>
            /\ (Has(s, t[i]) /\ Has(s, t[j])) => Pos(s, t[i]) < Pos(s, t[j])
            /\ ~Has(s, t[i]) => ~Has(s, t[j])

IsPrefix(s, t) == Len(s) <= Len(t) /\ SubSeq(t, 1, Len(s)) = s

Reads(f) ==
    /\ w_pc[1] = "run"
    /\ recv_buf[1] = <<>>
    /\ rx[1] = Tail(f)
    /\ rx'[1] = <<>>

SessionKept ==
    /\ w_pc'[1] = "run"
    /\ w_connected'[1]
    /\ queue' = queue

FrameDropped ==
    /\ written'[1] = <<>>
    /\ recv_buf'[1] = <<>>
    /\ seq_in'[1] = seq_in[1]
    /\ seq_out'[1] = seq_out[1]
    /\ outgoing'[1] = outgoing[1]

(* C22, as the code has it: a frame whose CRC does not match is logged and *)
(* dropped; nothing is enqueued, nothing written, the session goes on.     *)
C22_CrcMismatchDropped ==
    [][(Reads(BadCrcFrame) /\ ~escape[1]) =>
          /\ logged'[1] = "crc mismatch"
          /\ FrameDropped
          /\ SessionKept]_vars

C22_Witness ==
    /\ logged[1] = "crc mismatch"
    /\ w_pc[1] = "run"
    /\ w_connected[1]
    /\ c_connected
    /\ peer_sent = 1
    /\ rx[1] = <<>>

(* C22, as stated: a frame whose CRC does not match ends the session: the  *)
(* worker enqueues EVENT_DISCONNECTED and exits.                           *)
C22_CrcMismatchDisconnects ==
    [][(Reads(BadCrcFrame) /\ ~escape[1]) =>
          /\ w_pc'[1] = "done"
          /\ n_disconnected'[1] = 1]_vars

MalformedFrames ==
    {UnknownTagFrame, ShortAckFrame, ShortPacketFrame, TinyFrame}

(* C23: a frame with an unknown tag, or too short for its tag, is logged   *)
(* and dropped: no MESSAGE_INCOMING, no ACK, seq_in, seq_out and the slot  *)
(* unchanged, the receive buffer empty, the session still connected.       *)
C23_MalformedDropped ==
    [][\A f \in MalformedFrames :
        (Reads(f) /\ ~escape[1]) =>
            /\ logged'[1] # ""
            /\ FrameDropped
            /\ SessionKept]_vars

SfSends ==
    /\ HandleOutgoing
    /\ w_kind[real_connection] = "sf"

(* C24: SfConnection.send on a transport that is not connected writes      *)
(* nothing and calls the callback with False; on a connected one it either *)
(* writes the length byte and the data and calls the callback with True,   *)
(* or fails to write, clears the connected flag, enqueues                  *)
(* EVENT_DISCONNECTED and calls the callback with False.                   *)
C24_SfSend ==
    [][SfSends =>
        LET w == real_connection
            p == Head(queue).pkt
            data == Message_serialize(packets[p])
        IN  IF ~w_connected[w]
            THEN /\ written' = written
                 /\ cb'[p] = Append(cb[p], FALSE)
                 /\ queue' = Tail(queue)
            ELSE \/ /\ written'[w] = <<<<Len(data)>> \o data>>
                    /\ cb'[p] = Append(cb[p], TRUE)
                    /\ queue' = Tail(queue)
                    /\ w_connected'[w]
                 \/ /\ written' = written
                    /\ cb'[p] = Append(cb[p], FALSE)
                    /\ ~w_connected'[w]
                    /\ queue' = Append(Tail(queue),
                                       Event("DISCONNECTED", 0, <<>>, w))]_vars

C24_Witness ==
    /\ real_connection # NoneInt
    /\ w_kind[real_connection] = "sf"
    /\ cb[1] = <<FALSE>>
    /\ n_connected[real_connection] = 1
    /\ n_disconnected[real_connection] = 1
    /\ w_pc[real_connection] = "run"

AttemptPending ==
    \/ StartConnects(queue) # {}
    \/ \E w \in Workers : Alive(w)
    \/ \E i \in 1..Len(queue) : queue[i].type \in {"CONNECTED", "DISCONNECTED"}
    \/ sup \in {"line 165", "line 171"}

(* C25: whenever another thread reads them, the flags are not both set,    *)
(* and they read Connecting (neither set) only while a connect request or  *)
(* the outcome of its attempt is still to be processed.                    *)
C25_FlagStates ==
    /\ ~(c_connected /\ c_disconnected)
    /\ (~c_connected /\ ~c_disconnected) => AttemptPending

(* C26: between the supervisor's membership test and its lookup for a      *)
(* MESSAGE_INCOMING the table still holds the entry, so the lookup never   *)
(* misses and the supervisor thread does not die on it.                    *)
C26_TableSerialized ==
    /\ sup = "line 146" => Dispatched(Head(queue).data) # 0
    /\ sup # "crashed"

(* The step in which the read loop reads the ACK frame for seq. *)
AckRead(seq) == Reads(PeerFrame(seq, NoneBytes)) /\ ~escape[1]

AckSeqs == {0, 1}

Completed(p) == cb'[p] = Append(cb[p], TRUE)

(* C27: an ACK completes the packet in the slot (callback true, slot       *)
(* cleared, seq_out advanced) exactly when the slot is occupied, ACKs are  *)
(* enabled and the ACK's seq is seq_out; any other ACK leaves the slot,    *)
(* seq_out, tries, the deadline and the callbacks as they were; and a      *)
(* serial packet is completed with true only by the ACK for its own seq.   *)
C27_AckCompletes ==
    /\ [][\A seq \in AckSeqs : AckRead(seq) =>
            IF outgoing[1] # 0 /\ seq_out[1] # NoneInt /\ seq = seq_out[1]
            THEN /\ Completed(outgoing[1])
                 /\ \A p \in Packets \ {outgoing[1]} : cb'[p] = cb[p]
                 /\ outgoing'[1] = 0
                 /\ seq_out'[1] = (seq_out[1] + 1) % 256
            ELSE /\ cb' = cb
                 /\ outgoing'[1] = outgoing[1]
                 /\ seq_out'[1] = seq_out[1]
                 /\ tries'[1] = tries[1]
                 /\ expired'[1] = expired[1]]_vars
    /\ [][\A p \in Packets :
            (w_kind[1] = "serial" /\ Len(cb'[p]) > Len(cb[p])
                /\ cb'[p][Len(cb'[p])]) =>
                /\ outgoing[1] = p
                /\ seq_out[1] \in AckSeqs
                /\ AckRead(seq_out[1])]_vars

(* The ACK for seq 0 has been read and has completed the packet that was   *)
(* in the slot.                                                            *)
C27_Witness ==
    /\ w_pc[1] = "run"
    /\ rx[1] = <<>>
    /\ peer_sent > 0
    /\ outgoing[1] = 0
    /\ seq_out[1] = 1
    /\ \E p \in Packets : cb[p] = <<TRUE>>

NoAckFrames == {NoAckFrame, EmptyNoAckFrame}

NoAckBody(f) == IF f = NoAckFrame THEN <<DefaultDispatch, 1>> ELSE <<>>

(* C28: a valid NO_ACK_PACKET frame puts MESSAGE_INCOMING with its body on  *)
(* the queue when the body is not empty and nothing when it is empty, and  *)
(* in both cases leaves seq_in alone and writes no ACK.                    *)
C28_NoAckPacket ==
    [][\A f \in NoAckFrames :
        (Reads(f) /\ ~escape[1]) =>
            /\ Types(NewIncomings) =
                 IF NoAckBody(f) # <<>> THEN <<"INCOMING">> ELSE <<>>
            /\ \A i \in 1..Len(NewIncomings) :
                 NewIncomings[i].data = NoAckBody(f)
            /\ seq_in'[1] = seq_in[1]
            /\ written'[1] = <<>>]_vars


(* C29: the completion callback of a packet is called at most once, on     *)
(* every path: _subsend without a transport, the ACK for the packet, the   *)
(* ACK timeout after the last try, the send without ACKs, and every order  *)
(* of ACK arrival and ACK timeout.                                         *)
C29_CallbackOnce == \A p \in Packets : Len(cb[p]) <= 1

(* A packet has been given up after the last ACK timeout (callback False,  *)
(* seq_out advanced with no callback True made) and an ACK has been read   *)
(* after that, with the slot empty.                                        *)
C29_Witness ==
    /\ w_kind[1] = "serial"
    /\ seq_out[1] = 1
    /\ logged[1] = "ack, waiting none"
    /\ \E p \in Packets : cb[p] = <<FALSE>> /\ p \in submitted
    /\ \A p \in Packets : cb[p] # <<TRUE>>


(* C30: the decoder is reset at every frame delimiter: after the read loop *)
(* has handled 0x7E the receive buffer is empty and escape is false, so    *)
(* the first byte of the next frame is stored as it came.                  *)
C30_DecoderReset ==
    [][(SerialRx(1) /\ w_pc'[1] = "run"
            /\ Len(rx[1]) > Len(rx'[1])
            /\ rx[1][Len(rx[1]) - Len(rx'[1])] = HDLC_FRAMING_BYTE) =>
          /\ recv_buf'[1] = <<>>
          /\ ~escape'[1]]_vars

(* disconnect() has returned and connect() has not been called since: the  *)
(* user thread is idle and _reconnect_period, which every connect() of     *)
(* SpecDisconnect sets to a number, is the None that disconnect() stored.  *)
AfterDisconnect ==
    /\ u_pc = "idle"
    /\ connection_type # None
    /\ reconnect_period = NoneInt

(* C31: once disconnect() has returned, and until the next connect(), the  *)
(* supervisor handles no EVENT_START_CONNECT, so no transport worker is    *)
(* created, and the connection does not become connected.                  *)
C31_DisconnectIsFinal ==
    /\ [][AfterDisconnect => ~HandleStartConnect]_vars
    /\ [](AfterDisconnect => ~c_connected)

(* Packet p is in the outbound queue or in the slot of the running serial  *)
(* worker.                                                                 *)
Outstanding(p) ==
    /\ w_pc[1] = "run"
    /\ outgoing[1] = p \/ Has(outqueue[1], p)

(* C32: a packet placed in the outbound queue of a serial session          *)
(* eventually leaves the slot with its callback made, unless the session   *)
(* ends, whatever the peer keeps sending.                                  *)
C32_OutboundServiced ==
    \A p \in Packets :
        Outstanding(p) ~> (cb[p] # <<>> \/ w_pc[1] # "run")
=============================================================================
